---- MODULE Spec2Model ----
(***************************************************************************)
(* Verification model of the GAIA evaluation orchestration engine          *)
(* (harshada-javeri/gaia-agentbeats).                                      *)
(*                                                                         *)
(* Part I  - the executor ("purple") agent: PurpleAgentExecutor.execute,   *)
(*           its tool-calling loop and tool dispatch                       *)
(*           (src/src/purple_agent/agent.py, src/src/purple_agent/tools.py)*)
(*           specification Spec / FairSpec.                                *)
(* Part II - the evaluator ("green") agent: GAIAEvaluator.run_eval and the *)
(*           dataset loader (src/src/green_agent/agent.py,                 *)
(*           src/src/utils/gaia_loader.py), specifications EvalSpec and    *)
(*           EvalFairSpec; request validation, specification ValidateSpec; *)
(*           the evaluator run served by the executor, ConvSpec.           *)
(***************************************************************************)
EXTENDS Integers, Sequences, FiniteSets, TLC

VARIABLES
    \* ---- executor agent (Part I) ----
    ctx_id_to_messages, \* self.ctx_id_to_messages: ctx id -> list of turns
    started,            \* number of execute invocations started so far
    req_ctx,            \* context.context_id of each started invocation
    pc,                 \* position of each invocation inside execute
    iteration,          \* local variable `iteration` of each invocation
    pending,            \* tool calls of the current assistant turn not yet run
    event_queue,        \* messages enqueued by each invocation, in order
    llm_calls,          \* observation: completion() calls made by each invocation
    last_seen,          \* observation: `messages` argument of the latest completion()
    first_final,        \* observation: first tool-free response of each invocation
    tools_after_final,  \* observation: tools run after that response
    \* ---- evaluator agent (Part II) ----
    ev_pc,              \* position inside run_eval
    eval_config,        \* req.config: level, split, task_indices
    tasks,              \* the loaded batch (list of dataset rows)
    next_task,          \* position of the `for task in tasks` loop (1-based)
    metrics_tasks,      \* metrics["tasks"]: task id -> result
    sent,               \* observation: the prompts sent (batch position, task id)
    result_data,        \* the data part of the Result artifact, or NoResult
    resets,             \* observation: calls of self._tool_provider.reset()
    clock,              \* time.time()
    run_start,          \* start_time of run_eval
    in_flight,          \* the awaited _run_single_task calls and their start_time
    outcomes,           \* observation: how each task evaluation ended, in order
    vr_request,         \* the EvalRequest given to validate_request
    vr_result,          \* what validate_request returned, or NotValidated
    \* ---- the evaluator talking to the executor ----
    tp_context_id,      \* the conversation talk_to_agent last used, or None
    conversations,      \* observation: the invocation and conversation of each send
    \* ---- wait_agent_ready (Part III) ----
    w_pc,               \* position inside wait_agent_ready
    w_timeout,          \* its argument `timeout`
    retry_cnt,          \* its local variable retry_cnt
    w_result,           \* what it returned, or None
    fetches,            \* observation: calls of get_agent_card
    sleeps,             \* observation: calls of asyncio.sleep(1)
    cards,              \* observation: fetches that yielded a card
    \* ---- launch_evaluation (Part III) ----
    l_pc,               \* position inside launch_evaluation
    proc,               \* state of the processes p_green and p_purple
    ready,              \* observation: agents whose wait_agent_ready returned True
    run_requests,       \* observation: calls of send_message
    l_events,           \* observation: what the launcher did, in order
    \* ---- the text functions taken alone (Part IV) ----
    u_in,               \* the argument(s) of the function
    u_out,              \* what it returned, or NotApplied
    \* ---- the leaderboard service (Part V) ----
    webhook_secret,     \* GITHUB_WEBHOOK_SECRET at start-up, or None
    submissions,        \* table submissions, in insertion order
    webhook_events,     \* table webhook_events, in insertion order
    leaderboard,        \* table leaderboard (a set of entries)
    responses           \* observation: each request served and its response

purple_vars == <<ctx_id_to_messages, started, req_ctx, pc, iteration, pending,
                 event_queue, llm_calls, last_seen, first_final, tools_after_final>>
green_vars == <<ev_pc, eval_config, tasks, next_task, metrics_tasks, sent, result_data,
                resets, clock, run_start, in_flight, outcomes>>
validate_vars == <<vr_request, vr_result>>
link_vars == <<tp_context_id, conversations>>
wait_vars == <<w_pc, w_timeout, retry_cnt, w_result, fetches, sleeps, cards>>
launch_vars == <<l_pc, proc, ready, run_requests, l_events>>
util_vars == <<u_in, u_out>>
board_vars == <<webhook_secret, submissions, webhook_events, leaderboard, responses>>
tool_vars == <<wait_vars, launch_vars, util_vars, board_vars>>
vars == <<purple_vars, green_vars, validate_vars, link_vars, tool_vars>>

(***************************************************************************)
(* Part I.  The executor agent                                             *)
(***************************************************************************)

\* Bound: the number of completion() calls the model follows.  A request is
\* started only while the budget still lets it run to the iteration ceiling.
MaxModelCalls == 11

\* agent.py:112  max_iterations = 10
MAX_ITERATIONS == 10

CtxIds == {"c1", "c2"}
RequestIds == 1..(MaxModelCalls - MAX_ITERATIONS + 1)

None == "<None>"

\* agent.py:168  the fixed exhaustion message
SENTINEL == "Maximum iterations reached. Unable to complete task."

\* ---- the argument payloads a model may send (function.arguments, a string) ----
ARGS_QUERY == "{\"query\": \"gaia\"}"
ARGS_EMPTY_QUERY == "{\"query\": \"\"}"
ARGS_EXPR == "{\"expression\": \"6*7\"}"
ARGS_DIV0 == "{\"expression\": \"1/0\"}"
ARGS_EMPTY == "{}"
ARGS_WRONG_NAME == "{\"q\": \"gaia\"}"
ARGS_MALFORMED == "{\"query\": "

Raised(kind) == [raised |-> TRUE, kind |-> kind]
Returned(v) == [raised |-> FALSE, value |-> v]

\* json.loads on the payloads above: the decoded object as a function from
\* parameter name to value, or JSONDecodeError.
json_loads(s) ==
    CASE s = ARGS_QUERY -> Returned([query |-> "gaia"])
      [] s = ARGS_EMPTY_QUERY -> Returned([query |-> ""])
      [] s = ARGS_EXPR -> Returned([expression |-> "6*7"])
      [] s = ARGS_DIV0 -> Returned([expression |-> "1/0"])
      [] s = ARGS_EMPTY -> Returned(<<>>)
      [] s = ARGS_WRONG_NAME -> Returned([q |-> "gaia"])
      [] OTHER -> Raised("JSONDecodeError")

\* Python's binding of **kwargs to a signature: TypeError on a missing required
\* parameter or an unexpected keyword.
BindsTo(kwargs, required, optional) ==
    /\ required \subseteq DOMAIN kwargs
    /\ DOMAIN kwargs \subseteq (required \cup optional)

\* tools.py:8-36  web_search(query, max_results=5).  The search backend rejects an
\* empty query with an exception, which the function's own try/except turns into
\* an error payload.
web_search(kwargs) ==
    IF ~BindsTo(kwargs, {"query"}, {"max_results"})
    THEN Raised("TypeError")
    ELSE IF kwargs["query"] = ""
         THEN Returned("{\"error\": \"Search failed: keywords is mandatory\"}")
         ELSE Returned("{\"results\": [{\"title\": \"GAIA\"}]}")

\* tools.py:39-74  python_calculator(expression): eval in the restricted
\* namespace; every exception of the evaluation is caught inside the function.
python_calculator(kwargs) ==
    IF ~BindsTo(kwargs, {"expression"}, {})
    THEN Raised("TypeError")
    ELSE IF kwargs["expression"] = "6*7"
         THEN Returned("{\"result\": 42}")
         ELSE Returned("{\"error\": \"Calculation failed: division by zero\"}")

UnknownToolText(tool_name) == "Error: Unknown tool '" \o tool_name \o "'"

\* agent.py:62-77
execute_tool_call(tool_name, tool_args) ==
    IF tool_name = "web_search"
    THEN web_search(tool_args)
    ELSE IF tool_name = "python_calculator"
         THEN python_calculator(tool_args)
         ELSE Returned(UnknownToolText(tool_name))

\* ---- what the language model may answer ----
ToolCall(id, name, arguments) == [id |-> id, name |-> name, arguments |-> arguments]

\* a turn whose three calls all yield a textual result
TURN_TOOLS == <<ToolCall("call_a", "file_reader", ARGS_EMPTY),
                ToolCall("call_b", "web_search", ARGS_QUERY),
                ToolCall("call_c", "python_calculator", ARGS_DIV0)>>
\* two calls that yield a result, then an unknown tool with a malformed payload
TURN_MALFORMED == <<ToolCall("call_a", "python_calculator", ARGS_EXPR),
                    ToolCall("call_b", "web_search", ARGS_EMPTY_QUERY),
                    ToolCall("call_c", "file_reader", ARGS_MALFORMED)>>
\* a required parameter is missing
TURN_MISSING == <<ToolCall("call_a", "web_search", ARGS_EMPTY)>>
\* an unexpected parameter name
TURN_UNEXPECTED == <<ToolCall("call_a", "python_calculator", ARGS_WRONG_NAME)>>

Contents == {None, "<answer>42</answer>"}
ToolTurns == {TURN_TOOLS, TURN_MALFORMED, TURN_MISSING, TURN_UNEXPECTED}

\* response.choices[0].message
Responses ==
    [content : Contents, tool_calls : {<<>>}]
        \cup [content : {"partial"}, tool_calls : ToolTurns]

\* ---- turns of the history; `origin` is instrumentation (the invocation that
\* appended the turn) and is not part of what the code stores ----
UserTurn(r, text) == [role |-> "user", content |-> text, origin |-> r]
AssistantTurn(r, m) ==
    [role |-> "assistant", content |-> m.content, tool_calls |-> m.tool_calls, origin |-> r]
ToolTurn(r, call, text) ==
    [role |-> "tool", tool_call_id |-> call.id, name |-> call.name,
     content |-> text, origin |-> r]

UserInput(r) == "question"

\* agent.py:105-106 with the history re-created on every request
InitHistoryReset(store, ctx_id) == (ctx_id :> <<>>) @@ store

\* agent.py:105-106
InitHistory(store, ctx_id) ==
    IF ctx_id \in DOMAIN store THEN store ELSE (ctx_id :> <<>>) @@ store

\* messages.append where every conversation shares one list
AppendTurnShared(store, ctx_id, turn) ==
    [c \in DOMAIN store |-> Append(store[c], turn)]

\* agent.py:108, 109, 129, 156  messages = self.ctx_id_to_messages[ctx_id]; messages.append(turn)
AppendTurn(store, ctx_id, turn) ==
    [store EXCEPT ![ctx_id] = Append(@, turn)]

\* the loop test with an off-by-one ceiling
LoopContinuesOffByOne(i) == i <= MAX_ITERATIONS

\* agent.py:115  while iteration < max_iterations
LoopContinues(i) == i < MAX_ITERATIONS

\* agent.py:136  final_content = assistant_message.content or ""
FinalContent(m) == IF m.content = None THEN "" ELSE m.content

\* a loop that keeps going after a tool-free response
IsFinalNever(m) == FALSE

\* agent.py:132-134  if not tool_calls
IsFinal(m) == m.tool_calls = <<>>

\* exhaustion reported with the last assistant content
ExhaustedMessageLeaky(r) ==
    LET h == ctx_id_to_messages[req_ctx[r]]
        a == SelectSeq(h, LAMBDA t : t.role = "assistant")
    IN a[Len(a)].content

\* agent.py:166-171
ExhaustedMessage(r) == SENTINEL

NoFinal == [at |-> 0, content |-> None]

Running(r) == r \in 1..started /\ pc[r] \in {"loop", "tools"}
\* one coroutine runs at a time; control is given up only at an await
CpuFree == \A r \in 1..started : ~Running(r)

RECURSIVE SumTo(_, _)
SumTo(f, n) == IF n = 0 THEN 0 ELSE f[n] + SumTo(f, n - 1)
TotalCalls == SumTo(llm_calls, started)

PurpleInit ==
    /\ ctx_id_to_messages = <<>>
    /\ started = 0
    /\ req_ctx = <<>>
    /\ pc = <<>>
    /\ iteration = <<>>
    /\ pending = <<>>
    /\ event_queue = <<>>
    /\ llm_calls = <<>>
    /\ last_seen = <<>>
    /\ first_final = <<>>
    /\ tools_after_final = <<>>

\* agent.py:101-113  entry of execute up to the loop
ReceiveCore(ctx_id) ==
    /\ CpuFree
    /\ TotalCalls + MAX_ITERATIONS <= MaxModelCalls
    /\ LET r == started + 1 IN
        /\ started' = r
        /\ req_ctx' = Append(req_ctx, ctx_id)
        /\ ctx_id_to_messages' =
              AppendTurn(InitHistory(ctx_id_to_messages, ctx_id), ctx_id,
                         UserTurn(r, UserInput(r)))
        /\ pc' = Append(pc, "loop")
        /\ iteration' = Append(iteration, 0)
        /\ pending' = Append(pending, <<>>)
        /\ event_queue' = Append(event_queue, <<>>)
        /\ llm_calls' = Append(llm_calls, 0)
        /\ last_seen' = Append(last_seen, <<>>)
        /\ first_final' = Append(first_final, NoFinal)
        /\ tools_after_final' = Append(tools_after_final, 0)

\* a request from a client that names its conversation
Receive(ctx_id) ==
    /\ ReceiveCore(ctx_id)
    /\ UNCHANGED <<green_vars, validate_vars, link_vars, tool_vars>>

\* agent.py:115-140  one pass of the while loop up to the tool loop
ModelCall(r, m) ==
    /\ r \in 1..started
    /\ pc[r] = "loop"
    /\ LoopContinues(iteration[r])
    /\ iteration' = [iteration EXCEPT ![r] = @ + 1]
    /\ llm_calls' = [llm_calls EXCEPT ![r] = @ + 1]
    /\ last_seen' = [last_seen EXCEPT ![r] = ctx_id_to_messages[req_ctx[r]]]
    /\ ctx_id_to_messages' =
          AppendTurn(ctx_id_to_messages, req_ctx[r], AssistantTurn(r, m))
    /\ first_final' = [first_final EXCEPT ![r] =
          IF @.at = 0 /\ m.tool_calls = <<>>
          THEN [at |-> llm_calls[r] + 1, content |-> m.content] ELSE @]
    /\ IF IsFinal(m)
       THEN \* final answer, then break
            /\ event_queue' = [event_queue EXCEPT ![r] = Append(@, FinalContent(m))]
            /\ pc' = [pc EXCEPT ![r] = "after_loop"]
            /\ pending' = pending
       ELSE /\ pending' = [pending EXCEPT ![r] = m.tool_calls]
            /\ pc' = [pc EXCEPT ![r] = "tools"]
            /\ event_queue' = event_queue
    /\ UNCHANGED <<started, req_ctx, tools_after_final>>
    /\ UNCHANGED <<green_vars, validate_vars, link_vars, tool_vars>>

\* agent.py:143-163  one pass of `for tool_call in tool_calls`
ExecTool(r) ==
    /\ r \in 1..started
    /\ pc[r] = "tools"
    /\ IF pending[r] = <<>>
       THEN \* the for loop is over: back to the while test
            /\ pc' = [pc EXCEPT ![r] = "loop"]
            /\ UNCHANGED <<ctx_id_to_messages, pending, tools_after_final>>
       ELSE LET call == Head(pending[r])
                tool_args == json_loads(call.arguments)
                tool_result == IF tool_args.raised THEN tool_args
                               ELSE execute_tool_call(call.name, tool_args.value)
            IN IF tool_result.raised
               THEN \* the exception leaves execute
                    /\ pc' = [pc EXCEPT ![r] = "raised"]
                    /\ UNCHANGED <<ctx_id_to_messages, pending, tools_after_final>>
               ELSE /\ ctx_id_to_messages' =
                          AppendTurn(ctx_id_to_messages, req_ctx[r],
                                     ToolTurn(r, call, tool_result.value))
                    /\ pending' = [pending EXCEPT ![r] = Tail(@)]
                    /\ tools_after_final' = [tools_after_final EXCEPT ![r] =
                          IF first_final[r].at # 0 THEN @ + 1 ELSE @]
                    /\ pc' = pc
    /\ UNCHANGED <<started, req_ctx, iteration, event_queue, llm_calls, last_seen,
                   first_final>>
    /\ UNCHANGED <<green_vars, validate_vars, link_vars, tool_vars>>

\* agent.py:115, 165-171  leaving the loop (by break or by the failed loop test)
\* and the check that follows it
Return(r) ==
    /\ r \in 1..started
    /\ \/ pc[r] = "after_loop"
       \/ pc[r] = "loop" /\ ~LoopContinues(iteration[r])
    /\ event_queue' = [event_queue EXCEPT ![r] =
          IF iteration[r] >= MAX_ITERATIONS THEN Append(@, ExhaustedMessage(r)) ELSE @]
    /\ pc' = [pc EXCEPT ![r] = "returned"]
    /\ UNCHANGED <<ctx_id_to_messages, started, req_ctx, iteration, pending,
                   llm_calls, last_seen, first_final, tools_after_final>>
    /\ UNCHANGED <<green_vars, validate_vars, link_vars, tool_vars>>

Next ==
    \/ \E c \in CtxIds : Receive(c)
    \/ \E r \in RequestIds, m \in Responses : ModelCall(r, m)
    \/ \E r \in RequestIds : ExecTool(r)
    \/ \E r \in RequestIds : Return(r)

(***************************************************************************)
(* Part II.  The evaluator agent                                           *)
(***************************************************************************)

\* Bound: the longest task_indices list the model follows.
MaxBatch == 2

\* ---- the dataset collaborator (gaia_loader.py) ----
Row(id, q, gt) == [task_id |-> id, Question |-> q, Final_answer |-> gt]

\* One split of the dataset: a row with a numeric answer, a row without
\* question text, a row without ground truth and a row with a textual answer.
DATASET == <<Row("t0", "What is 6*7?", "42"),
             Row("t1", None, "7"),
             Row("t2", "Who will win?", None),
             Row("t3", "Capital of France?", "Paris")>>

Indices == -1..Len(DATASET)
Levels == {1, 4}
Splits == {"validation", "train"}

\* gaia_loader.py:28-43
get_split_name(level, split) ==
    IF level \notin {1, 2, 3} THEN Raised("ValueError")
    ELSE IF split \notin {"validation", "test"} THEN Raised("ValueError")
    ELSE Returned("2023_level")

\* gaia_loader.py:85-110  (dataset[task_index] follows Python indexing: a
\* negative index counts from the end)
get_task(level, split, task_index) ==
    IF get_split_name(level, split).raised THEN get_split_name(level, split)
    ELSE IF task_index >= Len(DATASET) THEN Raised("IndexError")
    ELSE IF task_index < -Len(DATASET) THEN Raised("IndexError")
    ELSE IF task_index < 0 THEN Returned(DATASET[Len(DATASET) + task_index + 1])
    ELSE Returned(DATASET[task_index + 1])

\* a loader that leaves out the rows it cannot get
get_task_batch_lenient(level, split, indices) ==
    LET good == SelectSeq(indices, LAMBDA i : ~get_task(level, split, i).raised)
    IN Returned([k \in 1..Len(good) |-> get_task(level, split, good[k]).value])

\* gaia_loader.py:112-125  the list comprehension stops at the first exception
RECURSIVE get_task_batch(_, _, _)
get_task_batch(level, split, indices) ==
    IF indices = <<>> THEN Returned(<<>>)
    ELSE LET first == get_task(level, split, Head(indices)) IN
         IF first.raised THEN first
         ELSE LET rest == get_task_batch(level, split, Tail(indices)) IN
              IF rest.raised THEN rest
              ELSE Returned(<<first.value>> \o rest.value)

\* ---- texts.  A text is the sequence of its lexemes: each of "<", ">", "/",
\* the blank, the newline and the JSON punctuation is a lexeme of its own, and
\* a maximal run of other characters is one lexeme ----
LT == "<"
GT == ">"
SLASH == "/"
BLANK == " "
NEWLINE == "\n"
Whitespace == {BLANK, NEWLINE}
QUOTE == "\""
ESCAPED_QUOTE == "\\\""
ESCAPED_NEWLINE == "\\n"

Min(S) == CHOOSE x \in S : \A y \in S : x <= y

Open(name) == <<LT>> \o name \o <<GT>>
Close(name) == <<LT, SLASH>> \o name \o <<GT>>

\* text[k..] begins with t
StartsWith(text, k, t) ==
    /\ k + Len(t) - 1 <= Len(text)
    /\ SubSeq(text, k, k + Len(t) - 1) = t

\* str.strip()
RECURSIVE strip(_)
strip(text) ==
    IF text = <<>> THEN text
    ELSE IF Head(text) \in Whitespace THEN strip(Tail(text))
    ELSE IF text[Len(text)] \in Whitespace THEN strip(SubSeq(text, 1, Len(text) - 1))
    ELSE text

NoMatch == [found |-> FALSE]

\* parse_tags.py:20  one attempt of <(.*?)>(.*?)</\1> at position i: the lazy
\* name ends at the first ">" after which the closing tag of that name
\* occurs somewhere, the lazy content ends at the first such closing tag
MatchAt(text, i) ==
    IF i > Len(text) \/ text[i] # LT THEN NoMatch
    ELSE LET ends(j) == {k \in j + 1..Len(text) :
                            StartsWith(text, k, Close(SubSeq(text, i + 1, j - 1)))}
             names == {j \in i + 1..Len(text) : text[j] = GT /\ ends(j) # {}}
         IN  IF names = {} THEN NoMatch
             ELSE LET j == Min(names)
                      k == Min(ends(j))
                      name == SubSeq(text, i + 1, j - 1)
                  IN  [found |-> TRUE, tag |-> name,
                       content |-> SubSeq(text, j + 1, k - 1),
                       next |-> k + Len(name) + 3]

\* parse_tags.py:20  re.findall: leftmost match from pos on, then on from its end
RECURSIVE findall(_, _)
findall(text, pos) ==
    LET starts == {i \in pos..Len(text) : MatchAt(text, i).found} IN
    IF starts = {} THEN <<>>
    ELSE LET m == MatchAt(text, Min(starts)) IN
         <<[tag |-> m.tag, content |-> m.content]>> \o findall(text, m.next)

EmptyDict == [x \in {} |-> <<>>]

\* a dictionary that keeps the first value of a key
dict_put_if_absent(d, key, value) ==
    [x \in DOMAIN d \cup {key} |-> IF x \in DOMAIN d THEN d[x] ELSE value]

\* parse_tags.py:21  an item of the dict comprehension: a later key overwrites
dict_put(d, key, value) ==
    [x \in DOMAIN d \cup {key} |-> IF x = key THEN value ELSE d[x]]

RECURSIVE dict_of(_, _)
dict_of(d, tags) ==
    IF tags = <<>> THEN d
    ELSE dict_of(dict_put(d, Head(tags).tag, strip(Head(tags).content)), Tail(tags))

\* parse_tags.py:7-21
parse_tags(text) == dict_of(EmptyDict, findall(text, 1))

\* ---- what the exchange with the executor may yield ----
FAULT == "connection refused"
FAULT_PROTOCOL == "executor responded with status failed"
Faults == {FAULT, FAULT_PROTOCOL}
REPLY_NUMERIC == "<answer>42.0</answer>"
REPLY_TEXT == "<answer> paris </answer>"
REPLY_UNTAGGED == "I do not know"
REPLY_EXACT == "<answer>42</answer>"
Replies == {REPLY_NUMERIC, REPLY_TEXT, REPLY_UNTAGGED}
Exchanges == Replies \cup Faults

\* time.time() advances while the evaluator awaits a collaborator
Durations == {0, 1}

ANSWER == <<"answer">>
\* launcher.py:46-47
PURPLE_URL == "http://localhost:9002"
SENTINEL_LOWER == "maximum iterations reached. unable to complete task."

\* the lexemes of the strings that are not one lexeme
Lexemes(s) ==
    CASE s = "" -> <<>>
      [] s = REPLY_NUMERIC -> Open(ANSWER) \o <<"42.0">> \o Close(ANSWER)
      [] s = REPLY_EXACT -> Open(ANSWER) \o <<"42">> \o Close(ANSWER)
      [] s = REPLY_TEXT -> Open(ANSWER) \o <<BLANK, "paris", BLANK>> \o Close(ANSWER)
      [] s = REPLY_UNTAGGED -> <<"I", BLANK, "do", BLANK, "not", BLANK, "know">>
      [] s = "i do not know" -> <<"i", BLANK, "do", BLANK, "not", BLANK, "know">>
      [] s = SENTINEL -> <<"Maximum", BLANK, "iterations", BLANK, "reached.", BLANK,
                           "Unable", BLANK, "to", BLANK, "complete", BLANK, "task.">>
      [] s = SENTINEL_LOWER -> <<"maximum", BLANK, "iterations", BLANK, "reached.", BLANK,
                                 "unable", BLANK, "to", BLANK, "complete", BLANK, "task.">>
      [] s = PURPLE_URL -> <<"http", ":", SLASH, SLASH, "localhost", ":", "9002">>
      [] s = " 42 " -> <<BLANK, "42", BLANK>>
      [] s = " PARIS\n" -> <<BLANK, "PARIS", NEWLINE>>
      [] OTHER -> <<s>>

\* the string of a text
Text(text) ==
    IF text = <<>> THEN ""
    ELSE IF Len(text) = 1 THEN text[1]
    ELSE CHOOSE s \in {REPLY_NUMERIC, REPLY_EXACT, REPLY_TEXT, REPLY_UNTAGGED,
                       "i do not know", SENTINEL, SENTINEL_LOWER} : Lexemes(s) = text

\* str.lower() of the words that occur here
lower_word(word) ==
    CASE word \in {"Paris", "PARIS"} -> "paris"
      [] word = "I" -> "i"
      [] word = "Maximum" -> "maximum"
      [] word = "Unable" -> "unable"
      [] OTHER -> word
lower(text) == [i \in DOMAIN text |-> lower_word(text[i])]

\* a predicted answer that is only ever the tag's content
predicted_answer_required(response) ==
    LET tags == parse_tags(Lexemes(response)) IN
    IF ANSWER \in DOMAIN tags THEN Text(tags[ANSWER]) ELSE ""

\* agent.py:240-241  tags = parse_tags(response); tags.get("answer", response)
predicted_answer_of(response) ==
    LET tags == parse_tags(Lexemes(response)) IN
    IF ANSWER \in DOMAIN tags THEN Text(tags[ANSWER]) ELSE response

\* agent.py:47-49  answer.strip().lower()
normalize_answer(answer) == Text(lower(strip(Lexemes(answer))))

\* a double: hundredths/100 + err * 10^-22, err being what the nearest double
\* of the decimal numeral adds to it
Double(hundredths, err) == [hundredths |-> hundredths, err |-> err]

\* float() of the numerals that occur here; ValueError otherwise
to_float(text) ==
    CASE text \in {"42", "42.0"} -> Returned(Double(4200, 0))
      [] text = "7" -> Returned(Double(700, 0))
      [] text = "2" -> Returned(Double(200, 0))
      [] text = "1" -> Returned(Double(100, 0))
      [] text = "0" -> Returned(Double(0, 0))
      [] text = "2.01" -> Returned(Double(201, -2131628))
      [] text = "1.01" -> Returned(Double(101, 88818))
      [] text = "0.3" -> Returned(Double(30, -111022))
      [] text = "0.29" -> Returned(Double(29, -199840))
      [] text = "0.02" -> Returned(Double(2, 4163))
      [] text = "0.01" -> Returned(Double(1, 2082))
      [] OTHER -> Raised("ValueError")

\* agent.py:52  tolerance: float = 0.01, the double nearest to 0.01
TOLERANCE == Double(1, 2082)

\* x - y of two doubles that are a tolerance apart or equal is exact; elsewhere
\* its rounding is far below what the comparison with the tolerance can see
fsub(x, y) == Double(x.hundredths - y.hundredths, x.err - y.err)
fless(x, y) ==
    \/ x.hundredths < y.hundredths
    \/ x.hundredths = y.hundredths /\ x.err < y.err
fabs(x) == IF fless(x, Double(0, 0)) THEN Double(-x.hundredths, -x.err) ELSE x

\* agent.py:76  abs(pred_num - gt_num) <= tolerance
within_tolerance(pred_num, gt_num) == ~fless(TOLERANCE, fabs(fsub(pred_num, gt_num)))

\* agent.py:52-80
check_answer_correctness(predicted, ground_truth) ==
    LET pred_norm == normalize_answer(predicted)
        gt_norm == normalize_answer(ground_truth)
    IN IF pred_norm = gt_norm THEN TRUE
       ELSE IF ~to_float(pred_norm).raised /\ ~to_float(gt_norm).raised
            THEN within_tolerance(to_float(pred_norm).value, to_float(gt_norm).value)
            ELSE FALSE

\* is_correct is True, False or None
PyBool(b) == IF b THEN "True" ELSE "False"

\* agent.py:210-223  the prompt; question[:100] at line 214 raises TypeError on a
\* row without question text
prompt_of(task) ==
    IF task.Question = None THEN Raised("TypeError") ELSE Returned(task.Question)

grade_always(predicted, ground_truth) ==
    PyBool(ground_truth # None /\ check_answer_correctness(predicted, ground_truth))

\* agent.py:244-247  is_correct = None; if ground_truth: is_correct = check(...)
grade(predicted, ground_truth) ==
    IF ground_truth # None /\ ground_truth # ""
    THEN PyBool(check_answer_correctness(predicted, ground_truth))
    ELSE None

on_send_failure_propagates(task, e, start_time, now) == Raised(e)

\* agent.py:259-267  except Exception as e: the error result
on_send_failure(task, e, start_time, now) ==
    Returned([task_id |-> task.task_id, question |-> task.Question,
              error |-> e, is_correct |-> PyBool(FALSE),
              elapsed_time |-> now - start_time])

\* agent.py:203-267  _run_single_task; `exchange` is what talk_to_agent does,
\* start_time and now are the readings of time.time() before and after it
run_single_task(task, exchange, start_time, now) ==
    IF prompt_of(task).raised THEN prompt_of(task)
    ELSE IF exchange \in Faults THEN on_send_failure(task, exchange, start_time, now)
    ELSE LET predicted == predicted_answer_of(exchange) IN
         Returned([task_id |-> task.task_id, question |-> task.Question,
                   predicted_answer |-> predicted,
                   ground_truth |-> task.Final_answer,
                   is_correct |-> grade(predicted, task.Final_answer),
                   elapsed_time |-> now - start_time,
                   full_response |-> exchange])

unguarded_task(task, result) == result

\* agent.py:136-149  try: result = await self._run_single_task(...)
\* except Exception as e: the error entry
guarded_task(task, result) ==
    IF result.raised
    THEN Returned([task_id |-> task.task_id, error |-> result.kind,
                   is_correct |-> PyBool(FALSE)])
    ELSE result

\* agent.py:141, 145  metrics["tasks"][task_id] = result
Record(store, task_id, result) == (task_id :> result) @@ store

\* a quotient of two integers, kept exact
Frac(n, d) == [num |-> n, den |-> d]
ZERO == Frac(0, 1)

\* Python's `/`
Div(a, b) == IF b = 0 THEN Raised("ZeroDivisionError") ELSE Returned(Frac(a, b))

AccuracyAsFraction(correct_tasks, total_tasks) ==
    IF total_tasks > 0 THEN Div(correct_tasks, total_tasks) ELSE Returned(ZERO)

\* agent.py:159  accuracy = (correct_tasks / total_tasks * 100) if total_tasks > 0 else 0
Accuracy(correct_tasks, total_tasks) ==
    IF total_tasks > 0 THEN Div(correct_tasks * 100, total_tasks) ELSE Returned(ZERO)

AvgTimeUnguarded(time_used, total_tasks) == Div(time_used, total_tasks)

\* agent.py:161  avg_time = time_used / total_tasks if total_tasks > 0 else 0
AvgTime(time_used, total_tasks) ==
    IF total_tasks > 0 THEN Div(time_used, total_tasks) ELSE Returned(ZERO)

\* a count of every result that is not marked wrong
count_correct_not_false(store) ==
    Cardinality({t \in DOMAIN store : store[t].is_correct # PyBool(FALSE)})

\* agent.py:153-155  sum(1 for r in ... if r.get("is_correct") is True)
count_correct(store) ==
    Cardinality({t \in DOMAIN store : store[t].is_correct = PyBool(TRUE)})

\* agent.py:152-173
Summary(store, time_used) ==
    LET total_tasks == Cardinality(DOMAIN store)
        correct_tasks == count_correct(store)
        error_tasks == Cardinality({t \in DOMAIN store : "error" \in DOMAIN store[t]})
        accuracy == Accuracy(correct_tasks, total_tasks)
        avg_time == AvgTime(time_used, total_tasks)
    IN IF accuracy.raised THEN accuracy
       ELSE IF avg_time.raised THEN avg_time
       ELSE Returned([emitted |-> TRUE, score |-> correct_tasks,
                      max_score |-> total_tasks, accuracy |-> accuracy.value,
                      errors |-> error_tasks, task_results |-> store,
                      time_used |-> time_used, avg_time |-> avg_time.value])

NoResult == [emitted |-> FALSE]

RECURSIVE SeqsUpTo(_, _)
SeqsUpTo(S, n) ==
    IF n = 0 THEN {<<>>}
    ELSE LET shorter == SeqsUpTo(S, n - 1) IN
         shorter \cup {Append(q, x) : q \in shorter, x \in S}

SendTwice(log, entry) == Append(Append(log, entry), entry)

\* agent.py:229-233  the one call of talk_to_agent in _run_single_task
Send(log, entry) == Append(log, entry)

MayStartConcurrent(flight) == TRUE

\* agent.py:128, 137  `for task in tasks: ... await self._run_single_task(...)`:
\* the loop body of the next task starts when the awaited call has finished
MayStart(flight) == flight = {}

NOT_SENT == "<not sent>"

\* ---- request validation ----
Roles == {"executor", "judge", "observer"}
ConfigKeys == {"level", "split", "task_indices", "timeout"}

\* agent.py:87-88
REQUIRED_ROLES == {"executor"}
REQUIRED_CONFIG_KEYS == {"level", "split"}

\* EvalRequest: participants (role -> url) and config (key -> value)
Requests ==
    [participants : UNION {[R -> {"http://agent"}] : R \in SUBSET Roles},
     config : UNION {[K -> {1}] : K \in SUBSET ConfigKeys}]

Verdict(ok, text, names) == [ok |-> ok, msg |-> [text |-> text, names |-> names]]
NotValidated == Verdict(FALSE, "<not validated>", {})

\* the two checks in the other order
validate_request_keys_first(request) ==
    LET missing_roles == REQUIRED_ROLES \ DOMAIN request.participants
        missing_config_keys == REQUIRED_CONFIG_KEYS \ DOMAIN request.config
    IN IF missing_config_keys # {}
       THEN Verdict(FALSE, "Missing config keys", missing_config_keys)
       ELSE IF missing_roles # {}
       THEN Verdict(FALSE, "Missing roles", missing_roles)
       ELSE Verdict(TRUE, "ok", {})

\* agent.py:92-99
validate_request(request) ==
    LET missing_roles == REQUIRED_ROLES \ DOMAIN request.participants
        missing_config_keys == REQUIRED_CONFIG_KEYS \ DOMAIN request.config
    IN IF missing_roles # {}
       THEN Verdict(FALSE, "Missing roles", missing_roles)
       ELSE IF missing_config_keys # {}
       THEN Verdict(FALSE, "Missing config keys", missing_config_keys)
       ELSE Verdict(TRUE, "ok", {})

ValidRequest ==
    [participants |-> [r \in {"executor"} |-> "http://agent"],
     config |-> [k \in {"level", "split"} |-> 1]]

\* no run request has been looked at
ValidateIdle ==
    /\ vr_request = ValidRequest
    /\ vr_result = NotValidated

\* the request of the run has passed validation
Validated ==
    /\ vr_request = ValidRequest
    /\ vr_result = validate_request(ValidRequest)

LinkIdle ==
    /\ tp_context_id = None
    /\ conversations = <<>>

GreenRest ==
    /\ tasks = <<>>
    /\ next_task = 1
    /\ metrics_tasks = <<>>
    /\ sent = <<>>
    /\ result_data = NoResult
    /\ resets = 0
    /\ clock = 0
    /\ run_start = 0
    /\ in_flight = {}
    /\ outcomes = <<>>

GreenIdle ==
    /\ ev_pc = "off"
    /\ eval_config = [level |-> 1, split |-> "validation", task_indices |-> <<>>]
    /\ GreenRest

\* a validated run request enters run_eval (agent.py:103-107)
GreenInit ==
    /\ ev_pc = "start"
    /\ eval_config \in [level : Levels, split : Splits,
                        task_indices : SeqsUpTo(Indices, MaxBatch)]
    /\ GreenRest

\* a finally block that does nothing
finally_skipped(n) == n

\* agent.py:200-201  finally: self._tool_provider.reset()
finally_reset(n) == n + 1

\* agent.py:121-126 (and 200-201 when loading raises); loading takes d
LoadBatch(d) ==
    /\ ev_pc = "start"
    /\ clock' = clock + d
    /\ LET batch == get_task_batch(eval_config.level, eval_config.split,
                                   eval_config.task_indices) IN
       IF batch.raised
       THEN /\ ev_pc' = "failed"
            /\ resets' = finally_reset(resets)
            /\ tasks' = tasks
       ELSE /\ ev_pc' = "tasks"
            /\ tasks' = batch.value
            /\ resets' = resets
    /\ UNCHANGED <<eval_config, next_task, metrics_tasks, sent, result_data,
                   run_start, in_flight, outcomes>>
    /\ UNCHANGED <<purple_vars, validate_vars, link_vars, tool_vars>>

\* agent.py:128-137, 210-233  the loop body of the next task up to the point
\* where the prompt is on its way (or the point where building it raised)
SendTask ==
    /\ ev_pc = "tasks"
    /\ next_task <= Len(tasks)
    /\ MayStart(in_flight)
    /\ LET task == tasks[next_task]
           prompt == prompt_of(task)
           outcome == guarded_task(task, prompt)
       IN IF ~prompt.raised
          THEN /\ sent' = Send(sent, [pos |-> next_task, task_id |-> task.task_id])
               /\ in_flight' = in_flight \cup {[pos |-> next_task, start_time |-> clock]}
               /\ next_task' = next_task + 1
               /\ UNCHANGED <<ev_pc, metrics_tasks, outcomes, resets>>
          ELSE IF ~outcome.raised
          THEN /\ metrics_tasks' = Record(metrics_tasks, task.task_id, outcome.value)
               /\ outcomes' = Append(outcomes,
                                     [pos |-> next_task, task_id |-> task.task_id,
                                      exchange |-> NOT_SENT,
                                      start_time |-> clock, end_time |-> clock])
               /\ next_task' = next_task + 1
               /\ UNCHANGED <<ev_pc, sent, in_flight, resets>>
          ELSE \* the exception leaves run_eval through the finally block
               /\ ev_pc' = "failed"
               /\ resets' = finally_reset(resets)
               /\ UNCHANGED <<metrics_tasks, outcomes, next_task, sent, in_flight>>
    /\ UNCHANGED <<eval_config, tasks, result_data, clock, run_start>>
    /\ UNCHANGED <<purple_vars, validate_vars, link_vars, tool_vars>>

\* agent.py:229-267, 141-149  the awaited exchange ends after d with a reply
\* or a fault, and the result of the task is recorded
RunTask(exchange, d) ==
    /\ ev_pc = "tasks"
    /\ \E f \in in_flight :
          LET task == tasks[f.pos]
              now == clock + d
              result == run_single_task(task, exchange, f.start_time, now)
              outcome == guarded_task(task, result)
          IN /\ clock' = now
             /\ in_flight' = in_flight \ {f}
             /\ outcomes' = Append(outcomes,
                                   [pos |-> f.pos, task_id |-> task.task_id,
                                    exchange |-> exchange,
                                    start_time |-> f.start_time, end_time |-> now])
             /\ IF outcome.raised
                THEN /\ ev_pc' = "failed"
                     /\ resets' = finally_reset(resets)
                     /\ metrics_tasks' = metrics_tasks
                ELSE /\ metrics_tasks' = Record(metrics_tasks, task.task_id, outcome.value)
                     /\ UNCHANGED <<ev_pc, resets>>
    /\ UNCHANGED <<eval_config, tasks, next_task, sent, result_data, run_start>>
    /\ UNCHANGED <<purple_vars, validate_vars, link_vars, tool_vars>>

\* agent.py:151-201  the summary, the Result artifact and the finally block
SummariseCore(emission) ==
    /\ ev_pc = "tasks"
    /\ next_task > Len(tasks)
    /\ in_flight = {}
    /\ LET summary == Summary(metrics_tasks, clock - run_start) IN
       IF summary.raised \/ emission = "raise"
       THEN /\ ev_pc' = "failed"
            /\ result_data' = result_data
       ELSE /\ ev_pc' = "done"
            /\ result_data' = summary.value
    /\ resets' = finally_reset(resets)
    /\ UNCHANGED <<eval_config, tasks, next_task, metrics_tasks, sent, clock,
                   run_start, in_flight, outcomes>>
    /\ UNCHANGED <<purple_vars, validate_vars, link_vars, tool_vars>>

\* the run in which updater.add_artifact returns
Summarise == SummariseCore("emitted")

\* agent.py:192-201  updater.add_artifact raises
EmissionFails == SummariseCore("raise")

\* ---- the evaluator's sends reaching the executor ----
ConvIndices == {0, 2}
ConvDurations == {1}
FreshIds == <<"u1", "u2", "u3", "u4">>

new_conversation_reused(task) == FALSE

\* agent.py:232  new_conversation=True
new_conversation(task) == TRUE

\* talk_to_agent: a fresh conversation gets an identifier no conversation had
\* before; otherwise the conversation of the previous send is continued
conversation_of(fresh_wanted, stored, fresh) ==
    IF fresh_wanted \/ stored = None THEN fresh ELSE stored

Delivered(i) == \E k \in 1..Len(conversations) : conversations[k].pos = i

\* agent.py:229-233 and purple agent.py:101-113  the prompt in flight reaches
\* the executor, which starts execute for it
Deliver ==
    /\ \E f \in in_flight :
          /\ ~Delivered(f.pos)
          /\ Len(conversations) < Len(FreshIds)
          /\ LET wanted == new_conversation(tasks[f.pos])
                 c == conversation_of(wanted, tp_context_id,
                                      FreshIds[Len(conversations) + 1])
             IN /\ ReceiveCore(c)
                /\ tp_context_id' = c
                /\ conversations' =
                      Append(conversations,
                             [pos |-> f.pos, request |-> started + 1,
                              context_id |-> c, new_conversation |-> wanted])
    /\ UNCHANGED <<green_vars, validate_vars, tool_vars>>

\* the executor cannot be reached
Refuse(d) ==
    /\ \E f \in in_flight : ~Delivered(f.pos)
    /\ RunTask(FAULT, d)

\* the executor's invocation has ended: talk_to_agent raises when it ended by
\* an exception and returns one of the enqueued messages otherwise
Answer(d) ==
    \E f \in in_flight, k \in 1..Len(conversations) :
        /\ conversations[k].pos = f.pos
        /\ LET r == conversations[k].request IN
           \/ pc[r] = "raised" /\ RunTask(FAULT_PROTOCOL, d)
           \/ /\ pc[r] = "returned"
              /\ \E i \in 1..Len(event_queue[r]) : RunTask(event_queue[r][i], d)

(***************************************************************************)
(* Part III.  The launcher and its readiness polling                       *)
(***************************************************************************)

\* Bound: the largest `timeout` given to wait_agent_ready taken alone.
MaxTimeout == 8

\* what one call of get_agent_card may do: return a card, return None, raise
\* an Exception; "cancel" is the CancelledError of a cancelled launcher
FetchOutcomes == {"card", "none", "raise"}

WaitIdle ==
    /\ w_pc = "idle"
    /\ w_timeout = 0
    /\ retry_cnt = 0
    /\ w_result = None
    /\ fetches = 0
    /\ sleeps = 0
    /\ cards = 0

\* a2a_helpers.py:45  entry of wait_agent_ready(url, timeout)
WaitEntered(timeout) ==
    /\ w_pc = "test"
    /\ w_timeout = timeout
    /\ retry_cnt = 0
    /\ w_result = None
    /\ fetches = 0
    /\ sleeps = 0
    /\ cards = 0

\* an exception of the fetch leaves wait_agent_ready
after_fetch_unguarded(outcome) ==
    CASE outcome = "card" -> "return_true"
      [] outcome = "none" -> "sleep"
      [] outcome = "raise" -> "raised"
      [] OTHER -> "cancelled"

\* a2a_helpers.py:48-55  try: card = await get_agent_card(url) ...
\* except Exception: pass      (CancelledError is not an Exception)
after_fetch(outcome) ==
    CASE outcome = "card" -> "return_true"
      [] outcome = "none" -> "sleep"
      [] outcome = "raise" -> "sleep"
      [] OTHER -> "cancelled"

\* a2a_helpers.py:46-47, 57  the loop test, retry_cnt += 1, return False
WaitTest ==
    /\ w_pc = "test"
    /\ IF retry_cnt < w_timeout
       THEN /\ retry_cnt' = retry_cnt + 1
            /\ w_pc' = "fetch"
            /\ w_result' = w_result
       ELSE /\ w_pc' = "returned"
            /\ w_result' = PyBool(FALSE)
            /\ retry_cnt' = retry_cnt
    /\ UNCHANGED <<w_timeout, fetches, sleeps, cards>>

\* a2a_helpers.py:48-55  one fetch of the capability card
Fetch(outcome) ==
    /\ w_pc = "fetch"
    /\ fetches' = fetches + 1
    /\ cards' = IF outcome = "card" THEN cards + 1 ELSE cards
    /\ LET after == after_fetch(outcome) IN
       IF after = "return_true"
       THEN w_pc' = "returned" /\ w_result' = PyBool(TRUE)
       ELSE w_pc' = after /\ w_result' = w_result
    /\ UNCHANGED <<w_timeout, retry_cnt, sleeps>>

\* a2a_helpers.py:56  await asyncio.sleep(1)
Sleep(outcome) ==
    /\ w_pc = "sleep"
    /\ IF outcome = "cancel"
       THEN w_pc' = "cancelled" /\ sleeps' = sleeps
       ELSE w_pc' = "test" /\ sleeps' = sleeps + 1
    /\ UNCHANGED <<w_timeout, retry_cnt, w_result, fetches, cards>>

LaunchIdle ==
    /\ l_pc = "off"
    /\ proc = [a \in {"green", "purple"} |-> "unstarted"]
    /\ ready = {}
    /\ run_requests = 0
    /\ l_events = <<>>

NotApplied == [applied |-> FALSE]
UtilIdle ==
    /\ u_in = None
    /\ u_out = NotApplied

\* the leaderboard service not started
BoardIdle ==
    /\ webhook_secret = None
    /\ submissions = <<>>
    /\ webhook_events = <<>>
    /\ leaderboard = {}
    /\ responses = <<>>

\* launcher.py:36, 53  wait_agent_ready(..., timeout=15)
READY_TIMEOUT == 15

Agents == {"green", "purple"}
LaunchStart ==
    /\ l_pc = "start_green"
    /\ proc = [a \in Agents |-> "unstarted"]
    /\ ready = {}
    /\ run_requests = 0
    /\ l_events = <<>>

Event(what, agent) == [what |-> what, agent |-> agent]

\* p.terminate(); p.join() for the processes in `which`
terminate_and_join(procs, which) ==
    [a \in Agents |-> IF a \in which THEN "joined" ELSE procs[a]]

\* an abort that only stops the agent that was not ready
on_not_ready_own_process(procs, agent) == terminate_and_join(procs, {agent})

\* launcher.py:37-40, 54-59  the abort after a failed readiness wait
on_not_ready(procs, agent) ==
    IF agent = "green"
    THEN terminate_and_join(procs, {"green"})
    ELSE terminate_and_join(procs, {"green", "purple"})

\* a launcher that goes on whatever the wait returned
may_proceed_always(result) == TRUE

\* launcher.py:36, 53  if not await a2a_helpers.wait_agent_ready(...)
may_proceed(result) == result = PyBool(TRUE)

LaunchFrame == UNCHANGED <<purple_vars, green_vars, validate_vars, link_vars, util_vars,
                           board_vars>>

\* launcher.py:31-36, 48-53  p.start() and the call of wait_agent_ready;
\* start() may raise (the process cannot be spawned)
StartProcess(agent, outcome) ==
    /\ l_pc = IF agent = "green" THEN "start_green" ELSE "start_purple"
    /\ IF outcome = "started"
       THEN /\ proc' = [proc EXCEPT ![agent] = "running"]
            /\ l_pc' = IF agent = "green" THEN "wait_green" ELSE "wait_purple"
            /\ l_events' = Append(l_events, Event("start", agent))
            /\ w_pc' = "test"
            /\ w_timeout' = READY_TIMEOUT
            /\ retry_cnt' = 0
            /\ w_result' = None
            /\ fetches' = 0
            /\ sleeps' = 0
            /\ cards' = 0
       ELSE /\ l_pc' = "raised"
            /\ l_events' = Append(l_events, Event("start failed", agent))
            /\ UNCHANGED <<proc, wait_vars>>
    /\ UNCHANGED <<ready, run_requests>>
    /\ LaunchFrame

Polling == l_pc \in {"wait_green", "wait_purple"}
PollFrame == UNCHANGED launch_vars /\ LaunchFrame

\* launcher.py:36-42, 53-61  wait_agent_ready has returned
WaitDone(agent) ==
    /\ l_pc = IF agent = "green" THEN "wait_green" ELSE "wait_purple"
    /\ w_pc = "returned"
    /\ ready' = IF w_result = PyBool(TRUE) THEN ready \cup {agent} ELSE ready
    /\ IF may_proceed(w_result)
       THEN /\ l_pc' = IF agent = "green" THEN "start_purple" ELSE "send"
            /\ l_events' = Append(l_events, Event("ready", agent))
            /\ proc' = proc
       ELSE /\ proc' = on_not_ready(proc, agent)
            /\ l_pc' = "returned"
            /\ l_events' = Append(l_events, Event("not ready", agent))
    /\ w_pc' = "idle"
    /\ UNCHANGED <<w_timeout, retry_cnt, w_result, fetches, sleeps, cards, run_requests>>
    /\ LaunchFrame

\* the CancelledError of the awaited wait leaves launch_evaluation
WaitCancelled ==
    /\ Polling
    /\ w_pc = "cancelled"
    /\ w_pc' = "idle"
    /\ l_pc' = "raised"
    /\ l_events' = Append(l_events, Event("cancelled", "launcher"))
    /\ UNCHANGED <<w_timeout, retry_cnt, w_result, fetches, sleeps, cards, proc,
                   ready, run_requests>>
    /\ LaunchFrame

\* launcher.py:84-99  send_message, whose Exception is caught, and the cleanup
SendRequest(outcome) ==
    /\ l_pc = "send"
    /\ run_requests' = run_requests + 1
    /\ l_events' = Append(l_events, Event("send", outcome))
    /\ IF outcome = "cancel"
       THEN l_pc' = "raised" /\ proc' = proc
       ELSE l_pc' = "returned" /\ proc' = terminate_and_join(proc, {"green", "purple"})
    /\ UNCHANGED <<ready, wait_vars>>
    /\ LaunchFrame

LaunchInit ==
    /\ PurpleInit /\ GreenIdle /\ ValidateIdle /\ LinkIdle /\ WaitIdle /\ UtilIdle
    /\ BoardIdle
    /\ LaunchStart
LaunchNext ==
    \/ \E a \in Agents, o \in {"started", "raise"} : StartProcess(a, o)
    \/ Polling /\ WaitTest /\ PollFrame
    \/ \E o \in FetchOutcomes \cup {"cancel"} : Polling /\ Fetch(o) /\ PollFrame
    \/ \E o \in {"slept", "cancel"} : Polling /\ Sleep(o) /\ PollFrame
    \/ \E a \in Agents : WaitDone(a)
    \/ WaitCancelled
    \/ \E o \in {"response", "raise", "cancel"} : SendRequest(o)
LaunchSpec == LaunchInit /\ [][LaunchNext]_vars

ToolsIdle == WaitIdle /\ LaunchIdle /\ UtilIdle /\ BoardIdle

(***************************************************************************)
(* Part IV.  The text functions taken alone                                *)
(***************************************************************************)
MaxFragments == 3

\* the pieces inputs are made of: plain text, whole elements, and the pieces of
\* malformed markup
Plain(body) == [kind |-> "text", chars |-> body]
Element(name, body) ==
    [kind |-> "element", name |-> name, body |-> body,
     chars |-> Open(name) \o body \o Close(name)]
Junk(body) == [kind |-> "junk", chars |-> body]

Fragments ==
    { Plain(<<"x">>), Plain(<<BLANK, "y", BLANK>>),
      Element(<<"a">>, <<"1">>),
      Element(<<"a">>, <<BLANK, "2", NEWLINE>>),
      Element(<<"b">>, <<>>),
      Element(<<"a">>, Open(<<"b">>) \o <<"3">> \o Close(<<"b">>)),
      Junk(Open(<<"a">>)), Junk(Close(<<"a">>)), Junk(Close(<<"b">>)),
      Junk(<<LT>>), Junk(<<GT>>) }

RECURSIVE Flatten(_)
Flatten(doc) == IF doc = <<>> THEN <<>> ELSE Head(doc).chars \o Flatten(Tail(doc))

Applied(fn, value) == [applied |-> TRUE, fn |-> fn, value |-> value]
UtilFrame == UNCHANGED <<purple_vars, green_vars, validate_vars, link_vars,
                         wait_vars, launch_vars, board_vars>>

ApplyParseTags ==
    /\ u_out = NotApplied
    /\ u_out' = Applied("parse_tags", parse_tags(Flatten(u_in)))
    /\ UNCHANGED u_in
    /\ UtilFrame

\* ---- the run request ----
PURPLE_AGENT_URL == <<"purple_agent_url">>
EVAL_CONFIG == <<"eval_config">>

\* json.dumps of a str: the quotes, with a quote or a newline inside escaped
json_string(text) ==
    <<QUOTE>>
    \o [i \in DOMAIN text |->
          CASE text[i] = QUOTE -> ESCAPED_QUOTE
            [] text[i] = NEWLINE -> ESCAPED_NEWLINE
            [] OTHER -> text[i]]
    \o <<QUOTE>>

Indent(n) == [i \in 1..n |-> BLANK]

RECURSIVE json_items(_, _)
json_items(items, indent) ==
    IF items = <<>> THEN <<>>
    ELSE <<NEWLINE>> \o Indent(indent) \o <<ToString(Head(items))>>
         \o (IF Len(items) > 1 THEN <<",">> ELSE <<>>)
         \o json_items(Tail(items), indent)

\* json.dumps of a list of int with indent=2, the list being at depth 1
json_list(items) ==
    IF items = <<>> THEN <<"[", "]">>
    ELSE <<"[">> \o json_items(items, 4) \o <<NEWLINE>> \o Indent(2) \o <<"]">>

\* launcher.py:69-73, 80  json.dumps(eval_config, indent=2)
json_dumps(level, split, task_ids) ==
    <<"{", NEWLINE>>
    \o Indent(2) \o json_string(<<"level">>) \o <<":", BLANK, ToString(level), ",", NEWLINE>>
    \o Indent(2) \o json_string(<<"split">>) \o <<":", BLANK>> \o json_string(split)
    \o <<",", NEWLINE>>
    \o Indent(2) \o json_string(<<"task_indices">>) \o <<":", BLANK>> \o json_list(task_ids)
    \o <<NEWLINE, "}">>

\* launcher.py:75-82  the f-string of the run request
task_text(purple_url, level, split, task_ids) ==
    <<NEWLINE>> \o Open(PURPLE_AGENT_URL) \o <<NEWLINE>>
    \o Lexemes(purple_url) \o <<NEWLINE>>
    \o Close(PURPLE_AGENT_URL) \o <<NEWLINE>>
    \o Open(EVAL_CONFIG) \o <<NEWLINE>>
    \o json_dumps(level, split, task_ids) \o <<NEWLINE>>
    \o Close(EVAL_CONFIG) \o <<NEWLINE>> \o Indent(4)

\* what launch_evaluation may be given: any int, any str, any list of int
RequestLevels == {1, 3, -1}
RequestSplits ==
    { <<"validation">>, <<"test">>, <<>>, <<"my", BLANK, "split">>,
      <<QUOTE, "x", QUOTE>>, Open(<<"x">>), Close(PURPLE_AGENT_URL),
      Close(EVAL_CONFIG) }
RequestTaskIds == SeqsUpTo({0, 1, -1}, 2)

\* the run request as the evaluator's parse_tags sees it
ParseRunRequest ==
    /\ u_out = NotApplied
    /\ u_out' = Applied("run_request",
                        parse_tags(task_text(PURPLE_URL, u_in.level, u_in.split,
                                             u_in.task_ids)))
    /\ UNCHANGED u_in
    /\ UtilFrame

RoundTripInit ==
    /\ PurpleInit /\ GreenIdle /\ ValidateIdle /\ LinkIdle /\ WaitIdle /\ LaunchIdle
    /\ BoardIdle
    /\ u_in \in [level : RequestLevels, split : RequestSplits, task_ids : RequestTaskIds]
    /\ u_out = NotApplied
RoundTripNext == ParseRunRequest
RoundTripSpec == RoundTripInit /\ [][RoundTripNext]_vars

\* the answers check_answer_correctness is applied to
AnswerTexts ==
    {"42", "42.0", " 42 ", "7", "2", "2.01", "1", "1.01", "0.3", "0.29", "0.02",
     "0.01", "0", "Paris", "paris", " PARIS\n", "I do not know", ""}

ApplyCheckAnswer ==
    /\ u_out = NotApplied
    /\ u_out' = Applied("check_answer_correctness",
                        check_answer_correctness(u_in[1], u_in[2]))
    /\ UNCHANGED u_in
    /\ UtilFrame

AnswerInit ==
    /\ PurpleInit /\ GreenIdle /\ ValidateIdle /\ LinkIdle /\ WaitIdle /\ LaunchIdle
    /\ BoardIdle
    /\ u_in \in AnswerTexts \X AnswerTexts
    /\ u_out = NotApplied
AnswerNext == ApplyCheckAnswer
AnswerSpec == AnswerInit /\ [][AnswerNext]_vars

ParseInit ==
    /\ PurpleInit /\ GreenIdle /\ ValidateIdle /\ LinkIdle /\ WaitIdle /\ LaunchIdle
    /\ BoardIdle
    /\ u_in \in SeqsUpTo(Fragments, MaxFragments)
    /\ u_out = NotApplied
ParseNext == ApplyParseTags
ParseSpec == ParseInit /\ [][ParseNext]_vars

(***************************************************************************)
(* Part V.  The leaderboard service                                        *)
(***************************************************************************)

\* Bound: the number of requests the service is sent.
MaxRequests == 2

\* leaderboard_api.py:249-259  required
REQUIRED_FIELDS ==
    <<"agent_name", "agent_version", "level", "split", "accuracy", "correct_tasks",
      "total_tasks", "average_time_per_task", "total_time_seconds">>

\* an exception in flight; str(e) of a ValueError is its message
HTTPException(status_code, detail) ==
    [raised |-> TRUE, kind |-> "HTTPException", status_code |-> status_code,
     detail |-> detail]
ValueError(message) ==
    [raised |-> TRUE, kind |-> "ValueError", status_code |-> 0, detail |-> message]
IntegrityError(message) ==
    [raised |-> TRUE, kind |-> "IntegrityError", status_code |-> 0, detail |-> message]

\* str(e): "<status_code>: <detail>" for an HTTPException, the message otherwise
str_of(e) ==
    IF e.kind = "HTTPException" THEN <<ToString(e.status_code), ": ">> \o e.detail
    ELSE e.detail

\* int() and float() of the JSON values that occur here
to_number(text) ==
    CASE text = "1" -> Returned(1)
      [] text = "2" -> Returned(2)
      [] text = "4" -> Returned(4)
      [] text = "50" -> Returned(50)
      [] text = "80" -> Returned(80)
      [] OTHER -> ValueError(<<"could not convert string to float: ", text>>)

\* dict.get(key) with None for a missing key
Get(d, key) == IF key \in DOMAIN d THEN d[key] ELSE None

\* the response FastAPI builds: the returned dict, or the HTTPException that
\* left the endpoint
Ok(body) == [status |-> 200, detail |-> body]
ErrorResponse(e) == [status |-> e.status_code, detail |-> e.detail]

\* handlers that let an HTTPException through
create_submission_handlers_reraise(e) ==
    IF e.kind = "HTTPException" THEN e
    ELSE IF e.kind = "ValueError" THEN HTTPException(400, str_of(e))
    ELSE HTTPException(500, str_of(e))

\* leaderboard_api.py:301-305  except ValueError / except Exception
create_submission_handlers(e) ==
    IF e.kind = "ValueError" THEN HTTPException(400, str_of(e))
    ELSE HTTPException(500, str_of(e))

\* leaderboard_api.py:261-266  the first required field the payload lacks
missing_field(required, data) ==
    LET missing == {i \in 1..Len(required) : required[i] \notin DOMAIN data} IN
    IF missing = {} THEN None ELSE required[Min(missing)]

\* leaderboard_api.py:270-286  Submission(...); `now` is datetime.utcnow()
direct_submission(data, id, now) ==
    LET accuracy == to_number(data["accuracy"])
        level == to_number(data["level"])
    IN  IF level.raised THEN level
        ELSE IF accuracy.raised THEN accuracy
        ELSE Returned([id |-> id, source |-> "direct", delivery |-> None,
                       agent_name |-> data["agent_name"],
                       team_name |-> Get(data, "team_name"),
                       level |-> level.value, split |-> data["split"],
                       accuracy |-> accuracy.value, timestamp |-> now])

\* leaderboard_api.py:216-305  create_submission: the response and the table after
create_submission(submission_data, rows) ==
    LET field == missing_field(REQUIRED_FIELDS, submission_data)
        tried ==
            IF field # None
            THEN HTTPException(400, <<"Missing required field: ", field>>)
            ELSE direct_submission(submission_data, Len(rows) + 1, Len(rows) + 1)
    IN  IF tried.raised
        THEN [response |-> ErrorResponse(create_submission_handlers(tried)), rows |-> rows]
        ELSE [response |-> Ok(<<"created">>), rows |-> Append(rows, tried.value)]

\* the payloads POST /submissions is sent
FULL_PAYLOAD ==
    [agent_name |-> "agent", agent_version |-> "1.0", team_name |-> "a",
     level |-> "1", split |-> "validation", accuracy |-> "50", correct_tasks |-> "1",
     total_tasks |-> "2", average_time_per_task |-> "1", total_time_seconds |-> "2"]
Without(d, keys) == [k \in DOMAIN d \ keys |-> d[k]]
SubmissionPayloads ==
    {FULL_PAYLOAD,
     [FULL_PAYLOAD EXCEPT !.team_name = "b", !.accuracy = "80"],
     [FULL_PAYLOAD EXCEPT !.accuracy = "abc"],
     [FULL_PAYLOAD EXCEPT !.level = "4"],
     Without(FULL_PAYLOAD, {"team_name"}),
     Without(FULL_PAYLOAD, {"level", "accuracy"})}
        \cup {Without(FULL_PAYLOAD, {REQUIRED_FIELDS[i]}) : i \in 1..Len(REQUIRED_FIELDS)}

ApiFrame == UNCHANGED <<purple_vars, green_vars, validate_vars, link_vars,
                        wait_vars, launch_vars, util_vars>>

\* the observation the model keeps of one request
Observed(endpoint, request, response, rows, events) ==
    [endpoint |-> endpoint, request |-> request, response |-> response,
     rows_before |-> Len(submissions), rows_after |-> Len(rows),
     events_before |-> Len(webhook_events), events_after |-> Len(events)]

\* POST /submissions
CreateSubmission(payload) ==
    /\ Len(responses) < MaxRequests
    /\ LET done == create_submission(payload, submissions) IN
       /\ submissions' = done.rows
       /\ responses' = Append(responses,
                              Observed("POST /submissions", payload, done.response,
                                       done.rows, webhook_events))
    /\ UNCHANGED <<webhook_secret, webhook_events, leaderboard>>
    /\ ApiFrame

\* leaderboard_api.py:26  GITHUB_WEBHOOK_SECRET when it is set
SECRET == "s3cret"

\* HMAC-SHA256 taken as collision free: the digest names its key and its message
hmac_sha256(key, message) == [key |-> key, message |-> message]

\* the X-Hub-Signature-256 header: "<scheme>=<hexdigest>", or no header
Signature(scheme, key, message) ==
    [scheme |-> scheme, digest |-> hmac_sha256(key, message)]
NO_SIGNATURE == Signature("absent", None, None)

\* github_webhook.py:27-56  verify_signature
verify_signature(secret, payload, signature) ==
    IF secret = None THEN TRUE
    ELSE IF signature.scheme # "sha256" THEN FALSE
    ELSE hmac_sha256(secret, payload) = signature.digest

\* github_webhook.py:204-290  _create_submission_from_config; a JSON number is
\* written by its text, and None stands for "return None"
config_submission(config, id, now, delivery) ==
    IF missing_field(REQUIRED_FIELDS, config) # None THEN Raised("None")
    ELSE LET accuracy == to_number(config["accuracy"]) IN
         IF accuracy.raised THEN Raised("None")
         ELSE Returned([id |-> id, source |-> "github", delivery |-> delivery,
                        agent_name |-> config["agent_name"],
                        team_name |-> Get(config, "team_name"),
                        level |-> to_number(config["level"]).value,
                        split |-> config["split"],
                        accuracy |-> accuracy.value, timestamp |-> now])

\* github_webhook.py:58-104  extract_gaia_config: an empty dict when the commit
\* message or the pull request body holds no gaia_submission
NO_CONFIG == [k \in {} |-> ""]

\* github_webhook.py:106-149  process_push_event
process_push_event(payload, id, now, delivery) ==
    IF payload.shape # "push" THEN Raised("None")
    ELSE IF DOMAIN payload.config = {} THEN Raised("None")
    ELSE config_submission(payload.config, id, now, delivery)

\* github_webhook.py:151-201  process_pull_request_event
process_pull_request_event(payload, id, now, delivery) ==
    IF payload.action \notin {"opened", "synchronize"} THEN Raised("None")
    ELSE IF payload.shape # "pull_request" THEN Raised("None")
    ELSE IF DOMAIN payload.config = {} THEN Raised("None")
    ELSE config_submission(payload.config, id, now, delivery)

\* github_webhook.py:292-331  store_webhook_event; event_id is a unique column
store_webhook_event(events, event_type, event_id) ==
    IF \E i \in 1..Len(events) : events[i].event_id = event_id
    THEN IntegrityError(<<"UNIQUE constraint failed: webhook_events.event_id">>)
    ELSE Returned(Append(events, [event_type |-> event_type, event_id |-> event_id]))

\* leaderboard_queries.py:318-319  the levels and splits a refresh walks
BOARD_LEVELS == {1, 2, 3}
BOARD_SPLITS == {"validation", "test"}

\* a refresh that leaves the old entries in place
delete_none(entries) == entries

\* leaderboard_queries.py:315  db.query(LeaderboardEntry).delete()
delete_all(entries) == {}

\* the rows of one level and split
Board(rows, level, split) ==
    {i \in 1..Len(rows) : rows[i].level = level /\ rows[i].split = split}

\* leaderboard_queries.py:320-328  best_per_team: (team_name, max(accuracy))
best_per_team(rows, level, split) ==
    {[team_name |-> rows[i].team_name, max_accuracy |-> rows[i].accuracy] :
        i \in {i \in Board(rows, level, split) :
                 \A j \in Board(rows, level, split) :
                     rows[j].team_name = rows[i].team_name
                         => rows[j].accuracy <= rows[i].accuracy}}

\* leaderboard_queries.py:332-340  the team's latest submission at that accuracy
best_submission(rows, level, split, best) ==
    LET same == {i \in Board(rows, level, split) :
                    /\ rows[i].team_name = best.team_name
                    /\ rows[i].accuracy = best.max_accuracy}
    IN  rows[CHOOSE i \in same : \A j \in same : rows[j].timestamp <= rows[i].timestamp]

\* leaderboard_queries.py:344-350  rank: submissions with a higher accuracy, plus one
rank_of(rows, level, split, max_accuracy) ==
    Cardinality({i \in Board(rows, level, split) : rows[i].accuracy > max_accuracy}) + 1

\* leaderboard_queries.py:330-368  the entry of one team on one board
board_entry(rows, level, split, best) ==
    LET submission == best_submission(rows, level, split, best) IN
    [rank |-> rank_of(rows, level, split, best.max_accuracy),
     level |-> level, split |-> split,
     team_name |-> best.team_name, agent_name |-> submission.agent_name,
     accuracy |-> submission.accuracy, best_submission_id |-> submission.id,
     submission_timestamp |-> submission.timestamp]

\* leaderboard_queries.py:303-372  refresh_leaderboard: the entries afterwards
refresh_leaderboard(entries, rows) ==
    delete_all(entries) \cup
    UNION {{board_entry(rows, board[1], board[2], best) :
               best \in best_per_team(rows, board[1], board[2])} :
           board \in BOARD_LEVELS \X BOARD_SPLITS}

\* leaderboard_api.py:401-403  except Exception
github_webhook_handlers(e) == HTTPException(500, str_of(e))

\* leaderboard_api.py:349-403  github_webhook: the response and the tables after
github_webhook(delivery, secret, rows, events, entries) ==
    LET unchanged(e) == [response |-> ErrorResponse(github_webhook_handlers(e)),
                         rows |-> rows, events |-> events, entries |-> entries]
        stored == store_webhook_event(events, delivery.event, delivery.id)
        submission ==
            IF delivery.event = "push"
            THEN process_push_event(delivery.body, Len(rows) + 1, Len(rows) + 1, delivery.id)
            ELSE IF delivery.event = "pull_request"
            THEN process_pull_request_event(delivery.body, Len(rows) + 1, Len(rows) + 1,
                                            delivery.id)
            ELSE Raised("None")
    IN  IF /\ delivery.signature.scheme # "absent"
           /\ ~verify_signature(secret, delivery.body.name, delivery.signature)
        THEN unchanged(HTTPException(401, <<"Invalid signature">>))
        ELSE IF stored.raised THEN unchanged(stored)
        ELSE IF submission.raised
        THEN [response |-> Ok(<<"no_submission">>), rows |-> rows,
              events |-> stored.value, entries |-> entries]
        ELSE [response |-> Ok(<<"created">>), rows |-> Append(rows, submission.value),
              events |-> stored.value,
              entries |-> refresh_leaderboard(entries, Append(rows, submission.value))]

\* the request bodies GitHub delivers
PushBody(name, config) ==
    [name |-> name, shape |-> "push", action |-> None, config |-> config]
PullRequestBody(name, action, config) ==
    [name |-> name, shape |-> "pull_request", action |-> action, config |-> config]
PUSH == PushBody("push", FULL_PAYLOAD)
PUSH_WITHOUT_ACCURACY ==
    PushBody("push without accuracy", Without(FULL_PAYLOAD, {"accuracy"}))
PUSH_WITHOUT_CONFIG == PushBody("push without config", NO_CONFIG)
OPENED ==
    PullRequestBody("opened", "opened",
                    [FULL_PAYLOAD EXCEPT !.team_name = "b", !.accuracy = "80"])
CLOSED == PullRequestBody("closed", "closed", FULL_PAYLOAD)

\* the X-GitHub-Event header and the body it comes with
Events ==
    {<<"push", PUSH>>, <<"push", PUSH_WITHOUT_ACCURACY>>, <<"push", PUSH_WITHOUT_CONFIG>>,
     <<"pull_request", OPENED>>, <<"pull_request", CLOSED>>, <<"ping", PUSH>>}

\* the signature headers a delivery of `body` may carry
Signatures(body) ==
    {NO_SIGNATURE,
     Signature("sha256", SECRET, body.name),
     Signature("sha256", "guess", body.name),
     Signature("sha256", SECRET, "another body"),
     Signature("sha1", SECRET, body.name)}

\* the X-GitHub-Delivery header: a new delivery, or the first one sent again
DeliveryIds(events) == IF events = <<>> THEN {"d1"} ELSE {"d1", "d2"}

Deliveries(events) ==
    UNION {{[event |-> e[1], id |-> id, body |-> e[2], signature |-> signature] :
               id \in DeliveryIds(events), signature \in Signatures(e[2])} :
           e \in Events}

\* POST /webhooks/github
GithubWebhook(delivery) ==
    /\ Len(responses) < MaxRequests
    /\ LET done == github_webhook(delivery, webhook_secret, submissions, webhook_events,
                                  leaderboard) IN
       /\ submissions' = done.rows
       /\ webhook_events' = done.events
       /\ leaderboard' = done.entries
       /\ responses' = Append(responses,
                              Observed("POST /webhooks/github", delivery, done.response,
                                       done.rows, done.events))
    /\ UNCHANGED webhook_secret
    /\ ApiFrame

\* POST /admin/refresh-leaderboard
AdminRefresh ==
    /\ Len(responses) < MaxRequests
    /\ leaderboard' = refresh_leaderboard(leaderboard, submissions)
    /\ responses' = Append(responses,
                           Observed("POST /admin/refresh-leaderboard", NO_CONFIG,
                                    Ok(<<"success">>), submissions, webhook_events))
    /\ UNCHANGED <<webhook_secret, submissions, webhook_events>>
    /\ ApiFrame

ApiInit ==
    /\ PurpleInit /\ GreenIdle /\ ValidateIdle /\ LinkIdle
    /\ WaitIdle /\ LaunchIdle /\ UtilIdle
    /\ webhook_secret \in {None, SECRET}
    /\ submissions = <<>>
    /\ webhook_events = <<>>
    /\ leaderboard = {}
    /\ responses = <<>>
ApiNext ==
    \/ \E payload \in SubmissionPayloads : CreateSubmission(payload)
    \/ \E delivery \in Deliveries(webhook_events) : GithubWebhook(delivery)
    \/ AdminRefresh
ApiSpec == ApiInit /\ [][ApiNext]_vars

\* Bound: the number of rows of the submissions table a refresh is run over.
MaxSubmissions == 3

\* the rows POST /submissions has written: ids and timestamps grow with the
\* position, and neither the level nor the split is checked on the way in
SubmissionCells ==
    [team_name : {"a", "b"}, level : {1, 4},
     split : {"validation", "dev"}, accuracy : {50, 80}]
SubmissionRow(cell, i) ==
    [id |-> i, source |-> "direct", delivery |-> None, agent_name |-> "agent",
     team_name |-> cell.team_name, level |-> cell.level, split |-> cell.split,
     accuracy |-> cell.accuracy, timestamp |-> i]

\* refresh_leaderboard taken alone: the table, and the entries which the last
\* refresh, run when the table had `earlier` rows, has left
RefreshInit ==
    /\ PurpleInit /\ GreenIdle /\ ValidateIdle /\ LinkIdle
    /\ WaitIdle /\ LaunchIdle /\ UtilIdle
    /\ webhook_secret = None
    /\ webhook_events = <<>>
    /\ responses = <<>>
    /\ \E n \in 0..MaxSubmissions : \E cells \in [1..n -> SubmissionCells] :
           submissions = [i \in 1..n |-> SubmissionRow(cells[i], i)]
    /\ \E earlier \in 0..Len(submissions) :
           leaderboard = refresh_leaderboard({}, SubSeq(submissions, 1, earlier))
RefreshNext == AdminRefresh
RefreshSpec == RefreshInit /\ [][RefreshNext]_vars



\* wait_agent_ready taken alone
WaitFrame == UNCHANGED <<purple_vars, green_vars, validate_vars, link_vars,
                         launch_vars, util_vars, board_vars>>
WaitInit ==
    /\ PurpleInit /\ GreenIdle /\ ValidateIdle /\ LinkIdle /\ LaunchIdle /\ UtilIdle
    /\ BoardIdle
    /\ \E t \in -1..MaxTimeout : WaitEntered(t)
WaitNext ==
    \/ WaitTest /\ WaitFrame
    \/ \E o \in FetchOutcomes : Fetch(o) /\ WaitFrame
    \/ Sleep("slept") /\ WaitFrame
WaitSpec == WaitInit /\ [][WaitNext]_vars
\* every fetch and every sleep ends
WaitFairSpec == WaitSpec /\ WF_vars(WaitNext)

\* agent.py:92-99  validate_request(request)
Validate ==
    /\ vr_result = NotValidated
    /\ vr_result' = validate_request(vr_request)
    /\ UNCHANGED <<vr_request, purple_vars, green_vars, link_vars, tool_vars>>

Init == PurpleInit /\ GreenIdle /\ ValidateIdle /\ LinkIdle /\ ToolsIdle
Spec == Init /\ [][Next]_vars

EvalInit == PurpleInit /\ GreenInit /\ Validated /\ LinkIdle /\ ToolsIdle
EvalNext ==
    \/ \E d \in Durations : LoadBatch(d)
    \/ SendTask
    \/ \E x \in Exchanges, d \in Durations : RunTask(x, d)
    \/ Summarise
EvalSpec == EvalInit /\ [][EvalNext]_vars

\* the runs of the evaluator, those in which the artifact cannot be emitted included
ArtifactNext == EvalNext \/ EmissionFails
ArtifactSpec == EvalInit /\ [][ArtifactNext]_vars

\* a run of the evaluator against the executor
ConvInit ==
    /\ PurpleInit /\ Validated /\ LinkIdle /\ ToolsIdle
    /\ ev_pc = "start"
    /\ eval_config \in [level : {1}, split : {"validation"},
                        task_indices : SeqsUpTo(ConvIndices, MaxBatch)]
    /\ GreenRest
ConvNext ==
    \/ \E d \in ConvDurations : LoadBatch(d)
    \/ SendTask
    \/ Deliver
    \/ \E d \in ConvDurations : Refuse(d)
    \/ \E r \in RequestIds, m \in Responses : ModelCall(r, m)
    \/ \E r \in RequestIds : ExecTool(r)
    \/ \E r \in RequestIds : Return(r)
    \/ \E d \in ConvDurations : Answer(d)
    \/ Summarise
ConvSpec == ConvInit /\ [][ConvNext]_vars

ValidateInit ==
    /\ PurpleInit /\ GreenIdle /\ LinkIdle /\ ToolsIdle
    /\ vr_request \in Requests
    /\ vr_result = NotValidated
ValidateNext == Validate
ValidateSpec == ValidateInit /\ [][ValidateNext]_vars

\* The event loop resumes run_eval until it returns; every awaited exchange
\* ends, with a reply or with a fault.
EvalFairSpec == EvalSpec /\ WF_vars(EvalNext)

\* The event loop resumes a started coroutine until it returns or raises; every
\* completion() and tool call is assumed to return.
FairSpec ==
    /\ Spec
    /\ \A r \in RequestIds :
          WF_vars((\E m \in Responses : ModelCall(r, m)) \/ ExecTool(r) \/ Return(r))

(***************************************************************************)
(* Properties of the executor agent                                        *)
(***************************************************************************)
Ended(r) == pc[r] \in {"returned", "raised"}
OrEmpty(content) == IF content = None THEN "" ELSE content
Catalog == {"web_search", "python_calculator"}
IsPrefix(s, t) == Len(s) <= Len(t) /\ SubSeq(t, 1, Len(s)) = s

\* C1 (as claimed): every invocation that returns has enqueued exactly one
\* message: the final answer if some response carried no tool calls (also when
\* that response is the 10th), the sentinel otherwise.
C1_ExactlyOneResponse ==
    \A r \in 1..started :
        pc[r] = "returned" =>
            /\ Len(event_queue[r]) = 1
            /\ first_final[r].at # 0 => event_queue[r] = <<OrEmpty(first_final[r].content)>>
            /\ first_final[r].at = 0 => event_queue[r] = <<SENTINEL>>

\* C2: when all 10 responses of an invocation requested tools, every message it
\* enqueues is the sentinel, and once it has returned the sentinel is the one
\* message enqueued; no assistant content is emitted.
C2_ExhaustionEmitsOnlySentinel ==
    \A r \in 1..started :
        (llm_calls[r] = MAX_ITERATIONS /\ first_final[r].at = 0) =>
            /\ \A i \in 1..Len(event_queue[r]) : event_queue[r][i] = SENTINEL
            /\ pc[r] = "returned" => event_queue[r] = <<SENTINEL>>

C2_Witness ==
    \E r \in 1..started :
        /\ pc[r] = "returned"
        /\ llm_calls[r] = MAX_ITERATIONS
        /\ first_final[r].at = 0
        /\ event_queue[r] = <<SENTINEL>>

\* C3: the loop stops at the first response without tool calls: if it is the
\* k-th response the model has been called exactly k times, no tool runs after
\* it, and the answer enqueued for it is its content ("" when absent).
C3_StopsAtFirstFinal ==
    \A r \in 1..started :
        first_final[r].at # 0 =>
            /\ llm_calls[r] = first_final[r].at
            /\ iteration[r] = first_final[r].at
            /\ tools_after_final[r] = 0
            /\ pc[r] \in {"after_loop", "returned"}
            /\ Len(event_queue[r]) >= 1
            /\ event_queue[r][1] = OrEmpty(first_final[r].content)

C3_Witness ==
    \E r \in 1..started :
        /\ pc[r] = "returned"
        /\ first_final[r] = [at |-> 3, content |-> None]
        /\ llm_calls[r] = 3
        /\ event_queue[r] = <<"">>

\* C4: an invocation calls the model at most 10 times and then ends; an
\* invocation whose calls all returned ended by a final answer or at the ceiling.
C4_BoundedAndTerminates ==
    /\ [](\A r \in 1..started :
            /\ llm_calls[r] <= MAX_ITERATIONS
            /\ pc[r] = "returned" => (first_final[r].at # 0 \/ iteration[r] = MAX_ITERATIONS))
    /\ \A r \in RequestIds : (started >= r) ~> (started >= r /\ Ended(r))

C4_Witness ==
    \E r \in 1..started :
        pc[r] = "returned" /\ llm_calls[r] = MAX_ITERATIONS /\ first_final[r].at = 0

\* every assistant turn with n tool calls is followed by its n tool-result
\* turns, in the order of the calls, each with the id and name of its call
Complete(h) ==
    \A i \in 1..Len(h) :
        (h[i].role = "assistant" /\ h[i].tool_calls # <<>>) =>
            LET calls == h[i].tool_calls IN
            /\ i + Len(calls) <= Len(h)
            /\ \A j \in 1..Len(calls) :
                  /\ h[i + j].role = "tool"
                  /\ h[i + j].tool_call_id = calls[j].id
                  /\ h[i + j].name = calls[j].name

\* C5 (as claimed): the history passed to any model call holds no assistant
\* turn with tool calls that lacks one of its results.
C5_ModelSeesCompleteTurns ==
    \A r \in 1..started : Complete(last_seen[r])

\* C6 (as claimed): no tool call the model can request makes execute end by an
\* exception.
C6_NoToolFaultAbortsExecute ==
    \A r \in 1..started : pc[r] # "raised"

\* C7 (as claimed): a step of the tool loop on a call naming a tool outside the
\* catalog does not abort and appends the call's tool-result turn with the text
\* "Error: Unknown tool '<name>'".
C7_UnknownToolFedBack ==
    [][\A r \in 1..started :
          (/\ pc[r] = "tools"
           /\ pending[r] # <<>>
           /\ Head(pending[r]).name \notin Catalog
           /\ <<pc[r], pending[r]>> # <<pc'[r], pending'[r]>>) =>
              LET h == ctx_id_to_messages'[req_ctx[r]] IN
              /\ pc'[r] = "tools"
              /\ pending'[r] = Tail(pending[r])
              /\ Len(h) = Len(ctx_id_to_messages[req_ctx[r]]) + 1
              /\ h[Len(h)].role = "tool"
              /\ h[Len(h)].tool_call_id = Head(pending[r]).id
              /\ h[Len(h)].name = Head(pending[r]).name
              /\ h[Len(h)].content =
                    "Error: Unknown tool '" \o Head(pending[r]).name \o "'"]_vars

\* C8: in every step the history of each conversation keeps its previous
\* content as a prefix, and no conversation leaves the map.
C8_HistoryOnlyGrows ==
    [][\A c \in DOMAIN ctx_id_to_messages :
          /\ c \in DOMAIN ctx_id_to_messages'
          /\ IsPrefix(ctx_id_to_messages[c], ctx_id_to_messages'[c])]_vars

C8_Witness ==
    \E c \in DOMAIN ctx_id_to_messages :
        LET h == ctx_id_to_messages[c] IN
        /\ Len(h) >= 4
        /\ h[1].origin = 1
        /\ h[Len(h)].origin = 2
        /\ h[Len(h)].role = "tool"

\* C9: a history changes only by turns of requests for its own conversation,
\* and the messages passed to the model for a conversation hold only such turns.
OwnTurns(h, c) == \A i \in 1..Len(h) : req_ctx[h[i].origin] = c

C9_ConversationsIsolated ==
    /\ [](\A c \in DOMAIN ctx_id_to_messages : OwnTurns(ctx_id_to_messages[c], c))
    /\ [](\A r \in 1..started : OwnTurns(last_seen[r], req_ctx[r]))
    /\ [][\A c \in DOMAIN ctx_id_to_messages :
            /\ \A r \in 1..started :
                  (req_ctx[r] # c /\ <<pc[r], pending[r]>> # <<pc'[r], pending'[r]>>) =>
                      ctx_id_to_messages'[c] = ctx_id_to_messages[c]
            /\ (started' # started /\ req_ctx'[started'] # c) =>
                      ctx_id_to_messages'[c] = ctx_id_to_messages[c]]_vars

C9_Witness ==
    /\ started >= 2
    /\ req_ctx[1] # req_ctx[2]
    /\ Len(ctx_id_to_messages[req_ctx[1]]) >= 2
    /\ Len(last_seen[2]) >= 1
    /\ pc[2] = "tools"

(***************************************************************************)
(* Properties of the evaluator agent                                       *)
(***************************************************************************)
\* C10 (as claimed): a run that got past batch loading ends with one entry of
\* task_results per task of the batch, keyed by the task's id, so that
\* max_score (total_tasks) is the number of tasks of the batch.
C10_OneEntryPerBatchTask ==
    ev_pc = "done" =>
        /\ DOMAIN result_data.task_results = {tasks[i].task_id : i \in 1..Len(tasks)}
        /\ \A i \in 1..Len(tasks) :
              result_data.task_results[tasks[i].task_id].task_id = tasks[i].task_id
        /\ result_data.max_score = Len(tasks)

Last(q) == q[Len(q)]
Ends(exchange_set) ==
    /\ Len(outcomes') = Len(outcomes) + 1
    /\ Last(outcomes').exchange \in exchange_set

\* C11: when the send of a task prompt fails, _run_single_task does not let the
\* fault out: the run stays in its task loop and the task's result carries
\* the fault text as error, is_correct = False and the time elapsed since the
\* send started.
C11_SendFaultBecomesErrorResult ==
    [][Ends(Faults) =>
          LET o == Last(outcomes') IN
          /\ ev_pc' = "tasks"
          /\ resets' = resets
          /\ metrics_tasks'[o.task_id] =
                [task_id |-> o.task_id, question |-> tasks[o.pos].Question,
                 error |-> o.exchange, is_correct |-> PyBool(FALSE),
                 elapsed_time |-> clock' - o.start_time]]_vars

C11_Witness ==
    \E i \in 1..Len(outcomes) :
        /\ outcomes[i].exchange = FAULT_PROTOCOL
        /\ outcomes[i].task_id \in DOMAIN metrics_tasks
        /\ "error" \in DOMAIN metrics_tasks[outcomes[i].task_id]
        /\ metrics_tasks[outcomes[i].task_id].error = FAULT_PROTOCOL
        /\ metrics_tasks[outcomes[i].task_id].elapsed_time = 1

Failures == Faults \cup {NOT_SENT}
WasSent(i) == \E j \in 1..Len(sent) : sent[j].pos = i
HasOutcome(i) == \E j \in 1..Len(outcomes) : outcomes[j].pos = i

\* C12: no failure of a task (a fault of the exchange, or an exception raised
\* by the task runner itself) aborts the run: once the batch is loaded the
\* run stays in its task loop until it emits the result summary, it does
\* emit it, and by then every task of the batch has been run, its prompt
\* sent to the executor whenever the runner could build one.
C12_TaskFailureNeverAbortsRun ==
    /\ [][ev_pc = "tasks" => ev_pc' \in {"tasks", "done"}]_vars
    /\ (ev_pc = "tasks") ~> (ev_pc = "done" /\ result_data.emitted)
    /\ [](ev_pc = "done" =>
            \A i \in 1..Len(tasks) :
                /\ HasOutcome(i)
                /\ ~prompt_of(tasks[i]).raised => WasSent(i))

C12_Witness ==
    /\ ev_pc = "done"
    /\ result_data.emitted
    /\ Len(outcomes) >= 2
    /\ outcomes[1].exchange \in Failures
    /\ outcomes[1].pos = 1
    /\ WasSent(2)
    /\ result_data.errors >= 1

RowOf(task_id) == CHOOSE row \in {DATASET[i] : i \in 1..Len(DATASET)} : row.task_id = task_id
NoGroundTruth(task_id) == RowOf(task_id).Final_answer = None

\* C13 (as claimed): the result recorded for a task that has no ground truth has
\* is_correct = None, never False, however the exchange with the executor ended.
C13_NoGroundTruthNeverFalse ==
    \A t \in DOMAIN metrics_tasks :
        NoGroundTruth(t) => metrics_tasks[t].is_correct = None

\* C13 (amended): the result recorded for a task that has no ground truth has
\* is_correct = None and no error whenever the exchange returned a response;
\* when the exchange failed it has the error set and is_correct = False.
C13_NoGroundTruthNullUnlessFailed ==
    [][(Ends(Exchanges) /\ NoGroundTruth(Last(outcomes').task_id)) =>
          LET o == Last(outcomes')
              result == metrics_tasks'[o.task_id]
          IN IF o.exchange \in Replies
             THEN result.is_correct = None /\ "error" \notin DOMAIN result
             ELSE result.is_correct = PyBool(FALSE) /\ result.error = o.exchange]_vars

C13_Witness ==
    /\ Len(outcomes) >= 2
    /\ NoGroundTruth(outcomes[1].task_id) /\ outcomes[1].exchange \in Faults
    /\ NoGroundTruth(outcomes[2].task_id) /\ outcomes[2].exchange \in Replies
    /\ metrics_tasks[outcomes[2].task_id].is_correct = None

C15_EmptyBatchReportsZero ==
    [][(ev_pc = "tasks" /\ tasks = <<>>) =>
          /\ ev_pc' = "done"
          /\ result_data'.emitted
          /\ result_data'.max_score = 0
          /\ result_data'.accuracy = ZERO
          /\ result_data'.avg_time = ZERO]_vars

C15_Witness ==
    /\ ev_pc = "done"
    /\ eval_config.task_indices = <<>>
    /\ result_data.max_score = 0
    /\ result_data.time_used = 1
    /\ result_data.accuracy = ZERO
    /\ result_data.avg_time = ZERO

AnsweredCorrectly(o) ==
    /\ o.exchange \in Replies
    /\ ~NoGroundTruth(o.task_id)
    /\ normalize_answer(predicted_answer_of(o.exchange)) =
           normalize_answer(RowOf(o.task_id).Final_answer)

\* C16 (as claimed): when the executor answers every task of the batch with a
\* response whose answer tag equals the ground truth after trim and lowercase,
\* the summary has correct_tasks = total_tasks = the number of tasks of the
\* batch and error_tasks = 0.
C16_AllCorrectRun ==
    (/\ ev_pc = "done"
     /\ Len(outcomes) = Len(tasks)
     /\ \A i \in 1..Len(outcomes) : AnsweredCorrectly(outcomes[i])) =>
        /\ result_data.score = Len(tasks)
        /\ result_data.max_score = Len(tasks)
        /\ result_data.errors = 0

\* C17: within a run at most one task evaluation is in flight; a prompt is
\* sent only when no evaluation is in flight and the result of every earlier
\* task of the batch has been recorded, and results are recorded in batch order.
C17_TasksStrictlySequential ==
    /\ [](Cardinality(in_flight) <= 1)
    /\ [](\A f \in in_flight : \A i \in 1..(f.pos - 1) : HasOutcome(i))
    /\ [](\A j \in 1..Len(outcomes) : outcomes[j].pos = j)
    /\ [][Len(sent') > Len(sent) =>
             /\ in_flight = {}
             /\ Last(sent').pos = Len(outcomes) + 1
             /\ \A i \in 1..(Last(sent').pos - 1) :
                   HasOutcome(i) /\ tasks[i].task_id \in DOMAIN metrics_tasks]_vars

C17_Witness ==
    /\ \E f \in in_flight : f.pos = 2
    /\ Len(outcomes) = 1
    /\ outcomes[1].exchange \in Faults
    /\ "error" \in DOMAIN metrics_tasks[outcomes[1].task_id]
    /\ WasSent(1) /\ WasSent(2)

SendsOf(i) == Cardinality({j \in 1..Len(sent) : sent[j].pos = i})

\* C19: the prompt of a task of the batch is never sent twice, a finished run
\* has sent it exactly once for every task whose prompt the runner could
\* build, and the step in which a send fails sends nothing again: it records
\* the fault as the task's error and leaves no evaluation of it in flight.
C19_NoRetry ==
    /\ [](\A i \in 1..Len(tasks) : SendsOf(i) <= 1)
    /\ [](ev_pc = "done" =>
            \A i \in 1..Len(tasks) : ~prompt_of(tasks[i]).raised => SendsOf(i) = 1)
    /\ [][Ends(Faults) =>
             LET o == Last(outcomes') IN
             /\ sent' = sent
             /\ \A f \in in_flight' : f.pos # o.pos
             /\ metrics_tasks'[o.task_id].error = o.exchange]_vars

C19_Witness ==
    /\ ev_pc = "done"
    /\ Len(tasks) = 2
    /\ outcomes[1].exchange = FAULT
    /\ outcomes[2].exchange \in Replies
    /\ SendsOf(1) = 1 /\ SendsOf(2) = 1
    /\ result_data.errors = 1

\* C20: validate_request accepts exactly the requests whose participants
\* contain the role executor and whose config contains the keys level and
\* split; otherwise it returns a failure whose message names the missing
\* roles, or, when no role is missing, the missing config keys; it changes
\* nothing else.
C20_ValidateRequest ==
    /\ [](vr_result # NotValidated =>
            LET has_executor == "executor" \in DOMAIN vr_request.participants
                has_keys == {"level", "split"} \subseteq DOMAIN vr_request.config
            IN /\ vr_result.ok <=> (has_executor /\ has_keys)
               /\ vr_result.ok => vr_result.msg.text = "ok"
               /\ ~has_executor =>
                     vr_result.msg = [text |-> "Missing roles", names |-> {"executor"}]
               /\ (has_executor /\ ~has_keys) =>
                     vr_result.msg = [text |-> "Missing config keys",
                                      names |-> {"level", "split"} \ DOMAIN vr_request.config])
    /\ [][vr_result' # vr_result =>
             UNCHANGED <<vr_request, purple_vars, green_vars, link_vars, tool_vars>>]_vars

C20_Witness ==
    /\ vr_result # NotValidated
    /\ DOMAIN vr_request.participants = {"judge"}
    /\ DOMAIN vr_request.config = {"level", "timeout"}
    /\ ~vr_result.ok
    /\ vr_result.msg.text = "Missing roles"

\* C18: every task prompt is sent as a fresh conversation, no two sends share
\* a conversation, and the history the executor presents to the model while
\* handling one task evaluation, like the history it keeps for it, holds
\* only turns of that evaluation.
C18_FreshConversationPerTask ==
    /\ \A k \in 1..Len(conversations) : conversations[k].new_conversation
    /\ \A j, k \in 1..Len(conversations) :
          j # k => conversations[j].context_id # conversations[k].context_id
    /\ \A r \in 1..started :
          /\ \A i \in 1..Len(last_seen[r]) : last_seen[r][i].origin = r
          /\ \A i \in 1..Len(ctx_id_to_messages[req_ctx[r]]) :
                ctx_id_to_messages[req_ctx[r]][i].origin = r

C18_Witness ==
    /\ Len(conversations) = 2
    /\ started = 2
    /\ Len(ctx_id_to_messages[req_ctx[1]]) >= 2
    /\ \E i \in 1..Len(last_seen[2]) : last_seen[2][i].role = "tool"
    /\ Len(outcomes) = 1

InvalidBatchRequest(config) ==
    \/ config.level \notin {1, 2, 3}
    \/ config.split \notin {"validation", "test"}
    \/ \E i \in 1..Len(config.task_indices) :
          config.task_indices[i] \notin 0..(Len(DATASET) - 1)

\* C21 (as claimed): get_task_batch raises whenever the level is not 1, 2 or
\* 3, the split is not validation or test, or some index lies outside
\* 0..len(dataset)-1 (a negative index included); otherwise it returns the
\* rows of the indices, in their order.
C21_BatchLoadingValidates ==
    [][ev_pc = "start" =>
          IF InvalidBatchRequest(eval_config)
          THEN ev_pc' = "failed"
          ELSE /\ ev_pc' = "tasks"
               /\ tasks' = [k \in 1..Len(eval_config.task_indices) |->
                               DATASET[eval_config.task_indices[k] + 1]]]_vars

LoadFails(config) ==
    \E i \in 1..Len(config.task_indices) :
        get_task(config.level, config.split, config.task_indices[i]).raised

\* C22: when loading the batch raises (for the level, the split, or any one
\* index, also after indices that could be loaded), the run ends by the
\* exception leaving run_eval through its finally block: no prompt was sent,
\* no task was run and no Result artifact was emitted.
C22_LoadFailureFailsWholeRun ==
    (ev_pc # "start" /\ LoadFails(eval_config)) =>
        /\ ev_pc = "failed"
        /\ tasks = <<>> /\ sent = <<>> /\ outcomes = <<>> /\ metrics_tasks = <<>>
        /\ ~result_data.emitted
        /\ resets = 1

C22_Witness ==
    /\ ev_pc = "failed"
    /\ eval_config.level = 1 /\ eval_config.split = "validation"
    /\ eval_config.task_indices = <<0, 4>>
    /\ sent = <<>>
    /\ ~result_data.emitted

Max(a, b) == IF a > b THEN a ELSE b

\* C26: wait_agent_ready fetches the card at most `timeout` times and sleeps
\* one second after each unsuccessful fetch; it returns True at the first
\* fetch that yields a card and False after `timeout` unsuccessful fetches
\* (with no fetch at all when timeout <= 0); an exception of a fetch is an
\* unsuccessful attempt and never leaves the function; and the call returns.
C26_WaitAgentReady ==
    /\ [](fetches <= Max(w_timeout, 0) /\ cards <= 1)
    /\ [](w_pc \notin {"raised", "cancelled"})
    /\ [](w_pc \in {"test", "returned"} => sleeps = fetches - cards)
    /\ [](w_pc = "returned" =>
            /\ w_result = PyBool(TRUE) <=> cards = 1
            /\ w_result = PyBool(FALSE) <=>
                  (cards = 0 /\ fetches = Max(w_timeout, 0) /\ sleeps = fetches))
    /\ [][(w_pc = "test" /\ w_timeout <= 0) =>
             (w_pc' = "returned" /\ w_result' = PyBool(FALSE) /\ fetches' = 0)]_vars
    /\ [][cards' = cards + 1 => (w_pc' = "returned" /\ w_result' = PyBool(TRUE))]_vars
    /\ <>(w_pc = "returned")

C26_Witness ==
    /\ w_pc = "returned"
    /\ w_timeout = 3
    /\ w_result = PyBool(FALSE)
    /\ fetches = 3
    /\ sleeps = 3

(***************************************************************************)
(* Properties of the launcher                                              *)
(***************************************************************************)
Happened(what, agent) ==
    \E i \in 1..Len(l_events) : l_events[i] = Event(what, agent)
Exited == l_pc \in {"returned", "raised"}

\* C23 (as claimed): whenever launch_evaluation has been left, by return or by
\* an exception or cancellation, every process that was started has been
\* terminated and joined.
C23_NoProcessLeftRunning ==
    Exited => \A a \in Agents : proc[a] \in {"unstarted", "joined"}

\* C24: when the readiness wait of an agent returns False, the launcher has
\* returned with every started process terminated and joined (both of
\* them when it is the executor that was not ready), and no run request is
\* sent in that execution.
C24_NotReadyAborts ==
    \A a \in Agents :
        Happened("not ready", a) =>
            /\ l_pc = "returned"
            /\ run_requests = 0
            /\ \A b \in Agents : proc[b] \in {"unstarted", "joined"}
            /\ a = "purple" => (proc["green"] = "joined" /\ proc["purple"] = "joined")
            /\ l_events[Len(l_events)] = Event("not ready", a)

C24_Witness ==
    /\ Happened("ready", "green")
    /\ Happened("not ready", "purple")
    /\ fetches = READY_TIMEOUT
    /\ proc["green"] = "joined"
    /\ proc["purple"] = "joined"

\* C25: the launcher sends at most one run request, only with both agents
\* observed ready, and exactly one in every execution that gets that far; the
\* executor process is started only once the evaluator was observed ready.
C25_OneRequestAfterBothReady ==
    /\ run_requests <= 1
    /\ run_requests = 1 => ready = Agents
    /\ l_pc = "send" => (ready = Agents /\ run_requests = 0)
    /\ (l_pc = "returned" /\ ready = Agents) => run_requests = 1
    /\ proc["purple"] # "unstarted" => "green" \in ready
    /\ Happened("start", "purple") => Happened("ready", "green")

C25_Witness ==
    /\ l_pc = "returned"
    /\ run_requests = 1
    /\ ready = Agents
    /\ Happened("send", "response")

(***************************************************************************)
(* Properties of parse_tags                                                *)
(***************************************************************************)
Parsed == u_out.applied /\ u_out.fn = "parse_tags"
WellFormed(doc) == \A i \in 1..Len(doc) : doc[i].kind \in {"text", "element"}
ElementsOf(doc, name) ==
    {i \in 1..Len(doc) : doc[i].kind = "element" /\ doc[i].name = name}
NamesOf(doc) == {doc[i].name : i \in {n \in 1..Len(doc) : doc[n].kind = "element"}}
\* <name>content</name> occurs in the text with this trimmed content
Occurs(text, name, value) ==
    \E i \in 1..Len(text) : \E k \in i + 1..Len(text) :
        /\ StartsWith(text, i, Open(name))
        /\ k >= i + Len(name) + 2
        /\ StartsWith(text, k, Close(name))
        /\ value = strip(SubSeq(text, i + Len(name) + 2, k - 1))

\* C28: parse_tags returns a mapping for every input; every entry is an
\* occurrence <name>content</name> of the input with its content trimmed,
\* so unclosed and mismatched tags do not appear; an input made of plain
\* text and top-level elements maps exactly the names of its elements, each
\* to the trimmed content of its last element (an element nested in the
\* content is not an entry); an input without any tag gives the empty mapping.
C28_ParseTags ==
    Parsed =>
        LET text == Flatten(u_in)
            tags == u_out.value
        IN  /\ \A name \in DOMAIN tags : Occurs(text, name, tags[name])
            /\ WellFormed(u_in) =>
                  /\ DOMAIN tags = NamesOf(u_in)
                  /\ \A name \in NamesOf(u_in) :
                        LET last == CHOOSE i \in ElementsOf(u_in, name) :
                                        \A n \in ElementsOf(u_in, name) : n <= i
                        IN  tags[name] = strip(u_in[last].body)
            /\ (\A i \in 1..Len(text) : text[i] # LT) => tags = EmptyDict
            /\ (\A i \in 1..Len(text) : ~StartsWith(text, i, <<LT, SLASH>>)) =>
                  tags = EmptyDict

C28_Witness ==
    /\ Parsed
    /\ u_in = <<Element(<<"a">>, <<"1">>), Plain(<<"x">>),
                Element(<<"a">>, <<BLANK, "2", NEWLINE>>)>>
    /\ u_out.value = [n \in {<<"a">>} |-> <<"2">>]

(***************************************************************************)
(* Properties of the grading of an answer                                  *)
(***************************************************************************)
Checked == u_out.applied /\ u_out.fn = "check_answer_correctness"
IsNumeral(answer) == ~to_float(normalize_answer(answer)).raised
\* the decimal number a numeral denotes, in hundredths
DecimalOf(answer) == to_float(normalize_answer(answer)).value.hundredths
DecimalDistance(a, b) ==
    IF DecimalOf(a) < DecimalOf(b) THEN DecimalOf(b) - DecimalOf(a)
    ELSE DecimalOf(a) - DecimalOf(b)

\* C27 (as claimed): check_answer_correctness returns a truth value for every
\* pair of strings, and it is true exactly when the strings are equal after
\* trimming and lowercasing, or both parse as numbers that differ by at most
\* 0.01 (one hundredth).
C27_CheckAnswerCorrectness ==
    Checked =>
        /\ u_out.value \in BOOLEAN
        /\ u_out.value =
              \/ normalize_answer(u_in[1]) = normalize_answer(u_in[2])
              \/ /\ IsNumeral(u_in[1])
                 /\ IsNumeral(u_in[2])
                 /\ DecimalDistance(u_in[1], u_in[2]) <= 1

\* C29: when the executor replied to a task, the result recorded for the task
\* has as predicted answer the trimmed content of the reply's answer tag if
\* parse_tags finds one, the whole reply otherwise, and it has no error entry.
C29_PredictedAnswer ==
    [][ (Len(outcomes') = Len(outcomes) + 1 /\ ev_pc' # "failed") =>
          LET o == outcomes'[Len(outcomes')]
              result == metrics_tasks'[o.task_id]
              text == Lexemes(o.exchange)
              tags == parse_tags(text)
          IN  o.exchange \in Replies =>
                /\ "error" \notin DOMAIN result
                /\ ANSWER \in DOMAIN tags =>
                      /\ result.predicted_answer = Text(tags[ANSWER])
                      /\ Occurs(text, ANSWER, Lexemes(result.predicted_answer))
                /\ ANSWER \notin DOMAIN tags =>
                      result.predicted_answer = o.exchange ]_vars

C29_Witness ==
    \E t \in DOMAIN metrics_tasks : \E u \in DOMAIN metrics_tasks :
        /\ \E i \in 1..Len(outcomes) :
              outcomes[i].task_id = t /\ outcomes[i].exchange = REPLY_TEXT
        /\ "error" \notin DOMAIN metrics_tasks[t]
        /\ metrics_tasks[t].predicted_answer = "paris"
        /\ "error" \notin DOMAIN metrics_tasks[u]
        /\ metrics_tasks[u].predicted_answer = REPLY_UNTAGGED

(***************************************************************************)
(* Properties of the run request                                           *)
(***************************************************************************)
\* JSON decoding of a text holding an object whose values are integers,
\* strings and lists of integers (what an eval_config is); Undecodable for
\* any other text
Undecodable == [ok |-> FALSE]
Decoded(value, next) == [ok |-> TRUE, value |-> value, next |-> next]
SkipWhitespace(t, i) ==
    Min({j \in i..Len(t) + 1 : j = Len(t) + 1 \/ t[j] \notin Whitespace})
IntRange == -9..9
DecodeString(t, i) ==
    IF i > Len(t) \/ t[i] # QUOTE THEN Undecodable
    ELSE LET closes == {j \in i + 1..Len(t) : t[j] = QUOTE} IN
         IF closes = {} THEN Undecodable
         ELSE LET j == Min(closes)
                  body == SubSeq(t, i + 1, j - 1)
              IN  IF \E k \in DOMAIN body : body[k] = NEWLINE THEN Undecodable
                  ELSE Decoded([k \in DOMAIN body |->
                                   CASE body[k] = ESCAPED_QUOTE -> QUOTE
                                     [] body[k] = ESCAPED_NEWLINE -> NEWLINE
                                     [] OTHER -> body[k]], j + 1)
DecodeInt(t, i) ==
    IF i <= Len(t) /\ \E n \in IntRange : ToString(n) = t[i]
    THEN Decoded(CHOOSE n \in IntRange : ToString(n) = t[i], i + 1)
    ELSE Undecodable
RECURSIVE DecodeItems(_, _, _)
DecodeItems(t, i, acc) ==
    LET item == DecodeInt(t, SkipWhitespace(t, i)) IN
    IF ~item.ok THEN Undecodable
    ELSE LET j == SkipWhitespace(t, item.next) IN
         IF j > Len(t) THEN Undecodable
         ELSE IF t[j] = "," THEN DecodeItems(t, j + 1, Append(acc, item.value))
         ELSE IF t[j] = "]" THEN Decoded(Append(acc, item.value), j + 1)
         ELSE Undecodable
DecodeList(t, i) ==
    IF i > Len(t) \/ t[i] # "[" THEN Undecodable
    ELSE LET j == SkipWhitespace(t, i + 1) IN
         IF j <= Len(t) /\ t[j] = "]" THEN Decoded(<<>>, j + 1)
         ELSE DecodeItems(t, i + 1, <<>>)
DecodeValue(t, i) ==
    IF i > Len(t) THEN Undecodable
    ELSE IF t[i] = QUOTE THEN DecodeString(t, i)
    ELSE IF t[i] = "[" THEN DecodeList(t, i)
    ELSE DecodeInt(t, i)
RECURSIVE DecodeMembers(_, _, _)
DecodeMembers(t, i, acc) ==
    LET key == DecodeString(t, SkipWhitespace(t, i)) IN
    IF ~key.ok \/ Len(key.value) # 1 THEN Undecodable
    ELSE LET c == SkipWhitespace(t, key.next) IN
         IF c > Len(t) \/ t[c] # ":" THEN Undecodable
         ELSE LET v == DecodeValue(t, SkipWhitespace(t, c + 1)) IN
              IF ~v.ok THEN Undecodable
              ELSE LET j == SkipWhitespace(t, v.next)
                       members == dict_put(acc, key.value[1], v.value)
                   IN  IF j > Len(t) THEN Undecodable
                       ELSE IF t[j] = "," THEN DecodeMembers(t, j + 1, members)
                       ELSE IF t[j] = "}" THEN Decoded(members, j + 1)
                       ELSE Undecodable
JsonDecode(t) ==
    LET i == SkipWhitespace(t, 1) IN
    IF i > Len(t) \/ t[i] # "{" THEN Undecodable
    ELSE LET object == DecodeMembers(t, i + 1, EmptyDict) IN
         IF object.ok /\ SkipWhitespace(t, object.next) = Len(t) + 1
         THEN object ELSE Undecodable

WasParsed == u_out.applied /\ u_out.fn = "run_request"

\* C30 (as claimed): for every level, split and task index list given to the
\* launcher, parse_tags of the run request has a purple_agent_url entry equal
\* to the executor's URL and an eval_config entry whose JSON decoding is the
\* object {level, split, task_indices} of the values given.
C30_RunRequestRoundTrip ==
    WasParsed =>
        LET tags == u_out.value IN
        /\ PURPLE_AGENT_URL \in DOMAIN tags
        /\ tags[PURPLE_AGENT_URL] = Lexemes(PURPLE_URL)
        /\ EVAL_CONFIG \in DOMAIN tags
        /\ JsonDecode(tags[EVAL_CONFIG]).ok
        /\ JsonDecode(tags[EVAL_CONFIG]).value =
              [level |-> u_in.level, split |-> u_in.split,
               task_indices |-> u_in.task_ids]

(***************************************************************************)
(* Properties of concurrent executor requests                              *)
(***************************************************************************)
\* the turns each invocation appended to a history are next to one another
Contiguous(h) ==
    \A i \in 1..Len(h) : \A k \in i..Len(h) :
        h[i].origin = h[k].origin => \A j \in i..k : h[j].origin = h[i].origin

\* C31 (as claimed): however the invocations of execute interleave, the turns
\* an invocation appends to a conversation's history are contiguous, and the
\* history passed to any model call has every assistant turn with tool calls
\* followed by all its tool results.
C31_NoConcurrentMutationHazard ==
    /\ \A c \in DOMAIN ctx_id_to_messages : Contiguous(ctx_id_to_messages[c])
    /\ \A r \in 1..started : Complete(last_seen[r])

(***************************************************************************)
(* Properties of the run summary                                           *)
(***************************************************************************)
IsCorrect(result) == result.is_correct = PyBool(TRUE)
HasError(result) == "error" \in DOMAIN result

\* C32: in the summary of a run, score counts exactly the results whose
\* is_correct is True and errors exactly those with an error entry; no result
\* is both, so score + errors <= max_score; a result whose is_correct is None
\* is among the max_score results and is counted by neither.
C32_CountersConsistent ==
    ev_pc = "done" =>
        LET results == result_data.task_results
            correct == {t \in DOMAIN results : IsCorrect(results[t])}
            errors == {t \in DOMAIN results : HasError(results[t])}
            undecided == {t \in DOMAIN results : results[t].is_correct = None}
        IN  /\ result_data.max_score = Cardinality(DOMAIN results)
            /\ result_data.score = Cardinality(correct)
            /\ result_data.errors = Cardinality(errors)
            /\ correct \cap errors = {}
            /\ undecided \cap (correct \cup errors) = {}
            /\ result_data.score + result_data.errors <= result_data.max_score
            /\ result_data.score + result_data.errors + Cardinality(undecided)
                  <= result_data.max_score

C32_Witness ==
    /\ ev_pc = "done"
    /\ result_data.max_score = 2
    /\ result_data.score = 0
    /\ result_data.errors = 1
    /\ \E t \in DOMAIN result_data.task_results :
          result_data.task_results[t].is_correct = None

LeftEvaluation == ev_pc \in {"done", "failed"}

\* C33: the Result artifact is emitted at most once in a run, and only when
\* every task of the loaded batch has a recorded result; the tool provider
\* has been reset exactly once when the evaluation block has been left, by
\* its end or by an exception of batch loading or of the emission, and not
\* before.
C33_EmitOnceResetOnce ==
    /\ [](result_data.emitted =>
            /\ ev_pc = "done"
            /\ in_flight = {}
            /\ \A i \in 1..Len(tasks) : tasks[i].task_id \in DOMAIN metrics_tasks
            /\ result_data.task_results = metrics_tasks)
    /\ [](resets = IF LeftEvaluation THEN 1 ELSE 0)
    /\ [][result_data' # result_data => (~result_data.emitted /\ resets = 0)]_vars
    /\ [][LeftEvaluation => (ev_pc' = ev_pc /\ resets' = resets)]_vars

C33_Witness ==
    /\ ev_pc = "failed"
    /\ Len(tasks) = 2
    /\ next_task > Len(tasks)
    /\ Cardinality(DOMAIN metrics_tasks) = 2
    /\ ~result_data.emitted
    /\ resets = 1

(***************************************************************************)
(* Properties of the leaderboard service                                   *)
(***************************************************************************)

\* the answers to the requests of one endpoint
Answered(endpoint) == {i \in 1..Len(responses) : responses[i].endpoint = endpoint}

\* C34: POST /submissions with a payload that lacks a required field is answered
\* with status 400 and "Missing required field: <field>", and creates no row.
C34_MissingFieldIs400 ==
    \A i \in Answered("POST /submissions") :
        LET field == missing_field(REQUIRED_FIELDS, responses[i].request) IN
        field # None =>
            /\ responses[i].response.status = 400
            /\ responses[i].response.detail = <<"Missing required field: ", field>>
            /\ responses[i].rows_after = responses[i].rows_before

\* the signature header of a delivery is present and fails verification
BadSignature(delivery) ==
    /\ delivery.signature.scheme # "absent"
    /\ ~verify_signature(webhook_secret, delivery.body.name, delivery.signature)

\* C35: a delivery whose X-Hub-Signature-256 header does not verify against the
\* configured secret is answered with status 401 "Invalid signature", and neither
\* a webhook event nor a submission is stored for it.
C35_BadSignatureIs401 ==
    \A i \in Answered("POST /webhooks/github") :
        BadSignature(responses[i].request) =>
            /\ responses[i].response.status = 401
            /\ responses[i].response.detail = <<"Invalid signature">>
            /\ responses[i].rows_after = responses[i].rows_before
            /\ responses[i].events_after = responses[i].events_before

\* the delivery carries the HMAC-SHA256 of its own body under the configured secret
ValidlySigned(delivery) ==
    delivery.signature = Signature("sha256", webhook_secret, delivery.body.name)

\* C36: with a webhook secret configured, no delivery creates a submission unless
\* it carries a signature valid for its body under that secret; a delivery with
\* no signature header creates none.
C36_UnsignedCreatesNothing ==
    webhook_secret # None =>
        \A i \in Answered("POST /webhooks/github") :
            responses[i].rows_after > responses[i].rows_before
                => ValidlySigned(responses[i].request)

\* refresh_leaderboard has run and nothing has touched the tables since
Refreshed ==
    /\ responses # <<>>
    /\ responses[Len(responses)].endpoint = "POST /admin/refresh-leaderboard"

\* the rows of a team on the board of one level and split
TeamRows(team_name, level, split) ==
    {i \in 1..Len(submissions) :
        /\ submissions[i].team_name = team_name
        /\ submissions[i].level = level
        /\ submissions[i].split = split}

\* the entries of a team on the board of one level and split
TeamEntries(team_name, level, split) ==
    {e \in leaderboard : e.team_name = team_name /\ e.level = level /\ e.split = split}

\* the entry refers to a submission of its team with the team's highest accuracy
\* on that board, the latest one of those
RefersToBest(e) ==
    \E i \in TeamRows(e.team_name, e.level, e.split) :
        /\ submissions[i].id = e.best_submission_id
        /\ submissions[i].accuracy = e.accuracy
        /\ \A j \in TeamRows(e.team_name, e.level, e.split) :
               /\ submissions[j].accuracy <= submissions[i].accuracy
               /\ submissions[j].accuracy = submissions[i].accuracy
                      => submissions[j].timestamp <= submissions[i].timestamp

\* on one board a higher accuracy never has a larger rank, and the highest has rank 1
RankedByAccuracy ==
    \A e \in leaderboard :
        /\ \A f \in leaderboard :
               (f.level = e.level /\ f.split = e.split /\ e.accuracy > f.accuracy)
                   => e.rank <= f.rank
        /\ (\A f \in leaderboard :
               (f.level = e.level /\ f.split = e.split) => f.accuracy <= e.accuracy)
               => e.rank = 1

\* the level and split are among those a refresh walks
OnBoard(level, split) == level \in BOARD_LEVELS /\ split \in BOARD_SPLITS

\* C37 as stated: after a refresh there is exactly one entry for every team, level
\* and split that has a submission, each entry refers to the team's best submission
\* (the latest among ties), ranks follow accuracy, and no earlier entry survives.
C37_OneEntryPerTeamLevelSplit ==
    Refreshed =>
        /\ \A i \in 1..Len(submissions) :
               Cardinality(TeamEntries(submissions[i].team_name, submissions[i].level,
                                       submissions[i].split)) = 1
        /\ \A e \in leaderboard : RefersToBest(e)
        /\ RankedByAccuracy

\* C37, amended: the same for the levels 1, 2, 3 and the splits validation and
\* test; a submission of any other level or split has no entry.
C37_OneEntryPerTeamOnBoard ==
    Refreshed =>
        /\ \A i \in 1..Len(submissions) :
               Cardinality(TeamEntries(submissions[i].team_name, submissions[i].level,
                                       submissions[i].split))
                   = IF OnBoard(submissions[i].level, submissions[i].split) THEN 1 ELSE 0
        /\ \A e \in leaderboard : RefersToBest(e) /\ OnBoard(e.level, e.split)
        /\ RankedByAccuracy

\* a refresh over two submissions of team a tied at 80 and one of team b at 50 on
\* the same board: team a's entry is the later one, team b's has rank 3
C37_Witness ==
    /\ Refreshed
    /\ Len(submissions) = 3
    /\ \A i \in 1..3 : OnBoard(submissions[i].level, submissions[i].split)
    /\ \E e \in leaderboard :
           e.team_name = "a" /\ e.accuracy = 80 /\ e.best_submission_id = 2 /\ e.rank = 1
    /\ \E e \in leaderboard :
           e.team_name = "b" /\ e.accuracy = 50 /\ e.best_submission_id = 3 /\ e.rank = 3

====
